---- MODULE Spec2Model ----
(***************************************************************************)
(* Model of the makinilya text-interpolation engine:                       *)
(*   makinilya-text  : MakinilyaText::parse (grammar makinilya.pest)       *)
(*   makinilya-core  : Directory / Story / Context / StoryInterpolator     *)
(* A text is a sequence of one-character strings.                          *)
(***************************************************************************)
EXTENDS Integers, Sequences, FiniteSets, TLC

VARIABLES dir, context, story, res, chk, parsed,
          toml, loaded, count, separated, draft, calls, walk

\* what the library entry points called on their own work on: the table of
\* a Context.toml and what Context::parse made of it, a word count and its
\* separated form, a Story under construction and the calls made on it;
\* and where a call of check or interpolate stands in its walk of the story
libvars == <<toml, loaded, count, separated, draft, calls, walk>>

vars == <<dir, context, story, res, chk, parsed, toml, loaded, count, separated, draft,
          calls, walk>>

(***************************************************************************)
(* Bounds of the model.                                                    *)
(***************************************************************************)
MaxBody == 4
MaxLit == 3
MaxPath == 3
MaxNodes == 4
MaxDigits == 8
MaxWalkNodes == 3
MaxPieces == 3
MaxPush == 4

(***************************************************************************)
(* Character classes of the grammar.                                       *)
(***************************************************************************)
Letters ==
  {"a", "b", "c", "d", "e", "f", "g", "i", "l", "m", "n", "o", "p", "r",
   "s", "t", "v", "x", "y", "A", "C", "H"}

Digits == {"1", "2", "3"}

WS == {" ", "\n"}

IsIdStart(c) == c \in Letters \cup {"_"}

IsIdCont(c) == c \in Letters \cup Digits \cup {"_"}

At(s, i) == IF i >= 1 /\ i <= Len(s) THEN s[i] ELSE "EOI"

IsOpener(s, i) == At(s, i) = "{" /\ At(s, i + 1) = "{"

IsCloser(s, i) == At(s, i) = "}" /\ At(s, i + 1) = "}"

(***************************************************************************)
(* The grammar, as a PEG:                                                  *)
(*   makinilya            = SOI expression* EOI                            *)
(*   expression           = string_interpolation | text_content            *)
(*   string_interpolation = "{{" ws* identifier ws* "}}"                   *)
(*   identifier           = name (ws* "." ws* name)*                       *)
(*   name                 = [A-Za-z_][A-Za-z0-9_]*                         *)
(*   text_content         = (!"{{" ANY)+                                   *)
(* Every function returns the position after what it consumed, 0 when the  *)
(* rule does not match.                                                    *)
(***************************************************************************)
RECURSIVE SkipWs(_, _)
SkipWs(s, i) == IF At(s, i) \in WS THEN SkipWs(s, i + 1) ELSE i

RECURSIVE NameRest(_, _)
NameRest(s, i) == IF IsIdCont(At(s, i)) THEN NameRest(s, i + 1) ELSE i

\* faulty variant: a component may start with a digit
ParseNameAnyStart(s, i) == IF IsIdCont(At(s, i)) THEN NameRest(s, i + 1) ELSE 0

ParseName(s, i) == IF IsIdStart(At(s, i)) THEN NameRest(s, i + 1) ELSE 0

\* (ws* "." ws* name)* after a name that ended before position e
RECURSIVE ParseIdentifierTail(_, _, _)
ParseIdentifierTail(s, e, path) ==
  LET d == SkipWs(s, e)
      n == SkipWs(s, d + 1)
      f == ParseName(s, n)
  IN IF At(s, d) = "." /\ f # 0
       THEN ParseIdentifierTail(s, f, Append(path, SubSeq(s, n, f - 1)))
       ELSE [end |-> e, path |-> path]

ParseIdentifier(s, i) ==
  LET f == ParseName(s, i)
  IN IF f = 0
       THEN [end |-> 0, path |-> <<>>]
       ELSE ParseIdentifierTail(s, f, <<SubSeq(s, i, f - 1)>>)

ParseStringInterpolation(s, i) ==
  LET j == SkipWs(s, i + 2)
      id == ParseIdentifier(s, j)
      k == SkipWs(s, id.end)
  IN IF IsOpener(s, i) /\ id.end # 0 /\ IsCloser(s, k)
       THEN [end |-> k + 2,
             pair |-> [rule |-> "string_interpolation",
                       str |-> SubSeq(s, i, k + 1),
                       identifier |-> SubSeq(s, j, id.end - 1),
                       names |-> id.path]]
       ELSE [end |-> 0, pair |-> [rule |-> "none"]]

RECURSIVE TextEnd(_, _)
TextEnd(s, i) ==
  IF i > Len(s) \/ IsOpener(s, i) THEN i ELSE TextEnd(s, i + 1)

ParseTextContent(s, i) ==
  LET e == TextEnd(s, i)
  IN IF e = i
       THEN [end |-> 0, pair |-> [rule |-> "none"]]
       ELSE [end |-> e,
             pair |-> [rule |-> "text_content", str |-> SubSeq(s, i, e - 1)]]

\* faulty variant: an opener that starts no placeholder is taken as literal
\* text
ParseExpressionOpenerLiteral(s, i) ==
  LET si == ParseStringInterpolation(s, i)
      e == TextEnd(s, i + 2)
  IN IF si.end # 0 THEN si
     ELSE IF IsOpener(s, i)
            THEN [end |-> e,
                  pair |-> [rule |-> "text_content", str |-> SubSeq(s, i, e - 1)]]
            ELSE ParseTextContent(s, i)

ParseExpression(s, i) ==
  LET si == ParseStringInterpolation(s, i)
  IN IF si.end # 0 THEN si ELSE ParseTextContent(s, i)

\* 1-based line and column of position i
LineOf(s, i) == 1 + Cardinality({k \in 1..(i - 1) : At(s, k) = "\n"})

ColOf(s, i) ==
  LET nl == {k \in 1..(i - 1) : At(s, k) = "\n"}
      last == IF nl = {} THEN 0 ELSE CHOOSE k \in nl : \A m \in nl : m <= k
  IN i - last

ExpectedMessage == "expected EOI, string_interpolation, or text_content"

\* faulty variant: whitespace between two expressions is skipped and belongs
\* to no pair
RECURSIVE ParseExpressionsSkipWs(_, _, _)
ParseExpressionsSkipWs(s, i, pairs) ==
  LET w == IF pairs = <<>> THEN i ELSE SkipWs(s, i)
      e == ParseExpression(s, w)
  IN IF e.end # 0
       THEN ParseExpressionsSkipWs(s, e.end, Append(pairs, e.pair))
       ELSE IF w > Len(s)
              THEN [ok |-> TRUE, pairs |-> Append(pairs, [rule |-> "EOI"])]
              ELSE [ok |-> FALSE,
                    error |-> [message |-> ExpectedMessage,
                               line_col |-> [kind |-> "Pos", line |-> LineOf(s, w),
                                             col |-> ColOf(s, w)]]]

\* expression* EOI from position i; the pairs of the matched expressions are
\* followed by the EOI pair, which has no inner pair
RECURSIVE ParseExpressions(_, _, _)
ParseExpressions(s, i, pairs) ==
  LET e == ParseExpression(s, i)
  IN IF e.end # 0
       THEN ParseExpressions(s, e.end, Append(pairs, e.pair))
       ELSE IF i > Len(s)
              THEN [ok |-> TRUE, pairs |-> Append(pairs, [rule |-> "EOI"])]
              ELSE [ok |-> FALSE,
                    error |-> [message |-> ExpectedMessage,
                               line_col |-> [kind |-> "Pos", line |-> LineOf(s, i),
                                             col |-> ColOf(s, i)]]]

\* faulty variant: the position is passed on 0-based
MapParserErrorZeroBased(error) ==
  IF error.line_col.kind = "Pos"
    THEN [line |-> error.line_col.line - 1, col |-> error.line_col.col - 1,
          message |-> error.message]
    ELSE [line |-> 0, col |-> 0, message |-> error.message]

\* MakinilyaText::map_parser_error: LineColLocation::Pos gives its line and
\* column, any other location gives (0, 0)
MapParserError(error) ==
  IF error.line_col.kind = "Pos"
    THEN [line |-> error.line_col.line, col |-> error.line_col.col,
          message |-> error.message]
    ELSE [line |-> 0, col |-> 0, message |-> error.message]

\* MakinilyaText::parse
Parse(source) ==
  LET r == ParseExpressions(source, 1, <<>>)
  IN IF r.ok THEN r ELSE [ok |-> FALSE, error |-> MapParserError(r.error)]

(***************************************************************************)
(* Context values (enum Data) and the HashMap that holds them.  A map is a *)
(* function from keys to Data; Option<&Data> is the value or None.         *)
(***************************************************************************)
None == [t |-> "None"]

DString(v) == [t |-> "String", v |-> v]

DNumber(n) == [t |-> "Number", v |-> n]

DBoolean(b) == [t |-> "Boolean", v |-> b]

DObject(m) == [t |-> "Object", v |-> m]

\* HashMap::get
MapGet(m, k) == IF k \in DOMAIN m THEN m[k] ELSE None

\* Context::new / Context::from / Context::variables
ContextNew == [variables |-> <<>>]

ContextFrom(m) == [variables |-> m]

Variables(ctx) == ctx.variables

Digit(d) == CASE d = 0 -> "0" [] d = 1 -> "1" [] d = 2 -> "2" [] d = 3 -> "3"
              [] d = 4 -> "4" [] d = 5 -> "5" [] d = 6 -> "6" [] d = 7 -> "7"
              [] d = 8 -> "8" [] d = 9 -> "9"

RECURSIVE NatToString(_)
NatToString(n) ==
  IF n < 10 THEN <<Digit(n)>> ELSE Append(NatToString(n \div 10), Digit(n % 10))

\* f64 Display of an integral value: no fraction is printed
NumberToString(n) == IF n < 0 THEN <<"-">> \o NatToString(-n) ELSE NatToString(n)

\* f64 Debug of an integral value: always with ".0"
NumberDebug(n) == NumberToString(n) \o <<".", "0">>

BoolToString(b) ==
  IF b THEN <<"t", "r", "u", "e">> ELSE <<"f", "a", "l", "s", "e">>

\* str Debug (no character of the model needs an escape)
StrDebug(v) == <<"\"">> \o v \o <<"\"">>

\* The keys of a map in the iteration order of its hasher: ord lists all
\* keys, the map yields those it holds in that order.
RECURSIVE IterKeys(_, _)
IterKeys(m, ord) ==
  IF ord = <<>> THEN <<>>
  ELSE IF Head(ord) \in DOMAIN m
         THEN <<Head(ord)>> \o IterKeys(m, Tail(ord))
         ELSE IterKeys(m, Tail(ord))

\* #[derive(Debug)] of Data and Debug of HashMap<String, Data>
RECURSIVE DataDebug(_, _)
RECURSIVE MapDebugEntries(_, _, _)
RECURSIVE MapDebug(_, _)
DataDebug(d, ord) ==
  CASE d.t = "String" ->
         <<"S", "t", "r", "i", "n", "g", "(">> \o StrDebug(d.v) \o <<")">>
    [] d.t = "Number" ->
         <<"N", "u", "m", "b", "e", "r", "(">> \o NumberDebug(d.v) \o <<")">>
    [] d.t = "Boolean" ->
         <<"B", "o", "o", "l", "e", "a", "n", "(">> \o BoolToString(d.v) \o <<")">>
    [] d.t = "Object" ->
         <<"O", "b", "j", "e", "c", "t", "(">> \o MapDebug(d.v, ord) \o <<")">>

MapDebugEntries(m, keys, ord) ==
  IF keys = <<>> THEN <<>>
  ELSE StrDebug(Head(keys)) \o <<":", " ">> \o DataDebug(m[Head(keys)], ord)
       \o (IF Len(keys) > 1 THEN <<",", " ">> ELSE <<>>)
       \o MapDebugEntries(m, Tail(keys), ord)

MapDebug(m, ord) == <<"{">> \o MapDebugEntries(m, IterKeys(m, ord), ord) \o <<"}">>

\* faulty variant: every value is written in its Debug form
DataToStringDebug(d, ord) == DataDebug(d, ord)

\* impl ToString for Data
DataToString(d, ord) ==
  CASE d.t = "Boolean" -> BoolToString(d.v)
    [] d.t = "Number" -> NumberToString(d.v)
    [] d.t = "String" -> d.v
    [] d.t = "Object" -> MapDebug(d.v, ord)

(***************************************************************************)
(* Directory, PathItem, File and Story.                                    *)
(***************************************************************************)
MAKINILYA_TEXT_EXTENSION == "mt"

\* Option<String> of File::extension: <<>> is None, <<e>> is Some(e)
FileItem(name, content, extension) ==
  [kind |-> "File", name |-> name, content |-> content, extension |-> extension]

DirectoryItem(d) == [kind |-> "Directory", directory |-> d]

DirectoryNew(title) == [name |-> title, contents |-> <<>>]

PushItem(d, item) == [d EXCEPT !.contents = Append(@, item)]

StoryNew(title) == [title |-> title, parts |-> <<>>, contents |-> <<>>]

PushPart(st, part) == [st EXCEPT !.parts = Append(@, part)]

\* faulty variant: the content is put in front of the contents
PushContentFront(st, source) == [st EXCEPT !.contents = <<source>> \o @]

PushContent(st, source) == [st EXCEPT !.contents = Append(@, source)]

\* Story::title / Story::parts / Story::contents
Title(st) == st.title

Parts(st) == st.parts

Contents(st) == st.contents

\* String::from_utf8_lossy: an invalid byte becomes U+FFFD
FromUtf8Lossy(bytes) ==
  [i \in DOMAIN bytes |-> IF bytes[i] = "0xFF" THEN "U+FFFD" ELSE bytes[i]]

\* Story::parse: the loop over directory.contents() from item i on
RECURSIVE StoryParse(_)
RECURSIVE StoryParseItems(_, _, _)
\* faulty variant: a scene is inserted in front of the contents
RECURSIVE StoryParseItemsPrepend(_, _, _)
StoryParseItemsPrepend(items, i, st) ==
  IF i > Len(items) THEN st
  ELSE LET item == items[i]
       IN IF item.kind = "Directory"
            THEN StoryParseItemsPrepend(items, i + 1,
                                        PushPart(st, StoryParse(item.directory)))
            ELSE IF item.extension = <<MAKINILYA_TEXT_EXTENSION>>
                   THEN StoryParseItemsPrepend(items, i + 1,
                          [st EXCEPT !.contents = <<FromUtf8Lossy(item.content)>> \o @])
                   ELSE StoryParseItemsPrepend(items, i + 1, st)

StoryParseItems(items, i, st) ==
  IF i > Len(items) THEN st
  ELSE LET item == items[i]
       IN IF item.kind = "Directory"
            THEN StoryParseItems(items, i + 1,
                                 PushPart(st, StoryParse(item.directory)))
            ELSE IF item.extension = <<MAKINILYA_TEXT_EXTENSION>>
                   THEN StoryParseItems(items, i + 1,
                                        PushContent(st, FromUtf8Lossy(item.content)))
                   ELSE StoryParseItems(items, i + 1, st)

StoryParse(d) == StoryParseItems(d.contents, 1, StoryNew(d.name))

(***************************************************************************)
(* StoryInterpolator.                                                      *)
(***************************************************************************)
\* faulty variant: the loop never descends into an Object
WalkIdentifiersNoDescend(data, names, i) == data

\* the while-let loop over the identifiers after the first one
RECURSIVE WalkIdentifiers(_, _, _)
WalkIdentifiers(data, names, i) ==
  IF i > Len(names) THEN data
  ELSE IF data # None /\ data.t = "Object"
         THEN WalkIdentifiers(MapGet(data.v, names[i]), names, i + 1)
         ELSE WalkIdentifiers(data, names, i + 1)

\* faulty variant: an unresolved placeholder is left in the text as written
InterpolateExpressionKeepMiss(expression, ctx, ord) ==
  CASE expression.rule = "string_interpolation" ->
         LET data == WalkIdentifiers(MapGet(Variables(ctx), expression.names[1]),
                                     expression.names, 2)
         IN IF data # None THEN DataToString(data, ord) ELSE expression.str
    [] expression.rule = "text_content" -> expression.str
    [] OTHER -> <<>>

\* faulty variant: literal text loses its line breaks
InterpolateExpressionNoNewline(expression, ctx, ord) ==
  CASE expression.rule = "string_interpolation" ->
         LET data == WalkIdentifiers(MapGet(Variables(ctx), expression.names[1]),
                                     expression.names, 2)
         IN IF data # None THEN DataToString(data, ord) ELSE <<>>
    [] expression.rule = "text_content" ->
         SelectSeq(expression.str, LAMBDA ch : ch # "\n")
    [] OTHER -> <<>>

\* faulty variant: the keys are the pieces of the identifier as written,
\* cut at its dots
InterpolateExpressionSplitRaw(expression, ctx, ord) ==
  CASE expression.rule = "string_interpolation" ->
         LET RECURSIVE Cut(_)
             Cut(s) ==
               LET dots == {i \in 1..Len(s) : s[i] = "."}
                   d == CHOOSE i \in dots : \A k \in dots : i <= k
               IN IF dots = {} THEN <<s>>
                  ELSE <<SubSeq(s, 1, d - 1)>> \o Cut(SubSeq(s, d + 1, Len(s)))
             keys == Cut(expression.identifier)
             data == WalkIdentifiers(MapGet(Variables(ctx), keys[1]), keys, 2)
         IN IF data # None THEN DataToString(data, ord) ELSE <<>>
    [] expression.rule = "text_content" -> expression.str
    [] OTHER -> <<>>

\* faulty variant: the text of the value is parsed again, and a value that
\* starts with a placeholder is replaced by what that placeholder resolves to
InterpolateExpressionAgain(expression, ctx, ord) ==
  CASE expression.rule = "string_interpolation" ->
         LET first_identifier == expression.names[1]
             data == WalkIdentifiers(MapGet(Variables(ctx), first_identifier),
                                     expression.names, 2)
             text == IF data # None THEN DataToString(data, ord) ELSE <<>>
             again == Parse(text)
         IN IF ~again.ok THEN <<>>
            ELSE IF again.pairs # <<>> /\ again.pairs[1].rule = "string_interpolation"
              THEN LET inner == WalkIdentifiers(
                                  MapGet(Variables(ctx), again.pairs[1].names[1]),
                                  again.pairs[1].names, 2)
                   IN IF inner # None THEN DataToString(inner, ord) ELSE <<>>
              ELSE text
    [] expression.rule = "text_content" -> expression.str
    [] OTHER -> <<>>

\* StoryInterpolator::interpolate_expression; the pair given is the inner
\* pair of the expression, [rule |-> "EOI"] has none
InterpolateExpression(expression, ctx, ord) ==
  CASE expression.rule = "string_interpolation" ->
         LET first_identifier == expression.names[1]
             data == WalkIdentifiers(MapGet(Variables(ctx), first_identifier),
                                     expression.names, 2)
         IN IF data # None THEN DataToString(data, ord) ELSE <<>>
    [] expression.rule = "text_content" -> expression.str
    [] OTHER -> <<>>

\* faulty variant: the pieces are joined by a space
RECURSIVE JoinExpressionsSpace(_, _, _, _)
JoinExpressionsSpace(pairs, i, ctx, ord) ==
  IF i > Len(pairs) THEN <<>>
  ELSE InterpolateExpression(pairs[i], ctx, ord)
       \o (IF i < Len(pairs) THEN <<" ">> ELSE <<>>)
       \o JoinExpressionsSpace(pairs, i + 1, ctx, ord)

\* .map(interpolate_expression).collect().join("")
RECURSIVE JoinExpressions(_, _, _, _)
JoinExpressions(pairs, i, ctx, ord) ==
  IF i > Len(pairs) THEN <<>>
  ELSE InterpolateExpression(pairs[i], ctx, ord)
       \o JoinExpressions(pairs, i + 1, ctx, ord)

\* StoryInterpolator::interpolate: the loop over contents from i on, then the
\* loop over parts from j on; out is interpolated_story
RECURSIVE Interpolate(_, _, _)
RECURSIVE InterpolateParts(_, _, _, _, _)
RECURSIVE InterpolateContents(_, _, _, _, _)
\* faulty variant: a part that fails is left out and the walk goes on
RECURSIVE InterpolatePartsSkipFailed(_, _, _, _, _)
InterpolatePartsSkipFailed(st, j, out, ctx, ord) ==
  IF j > Len(st.parts) THEN [ok |-> TRUE, story |-> out]
  ELSE LET interpolated_part == Interpolate(st.parts[j], ctx, ord)
       IN IF ~interpolated_part.ok
            THEN InterpolatePartsSkipFailed(st, j + 1, out, ctx, ord)
            ELSE InterpolatePartsSkipFailed(st, j + 1,
                   PushPart(out, interpolated_part.story), ctx, ord)

\* faulty variant: a part without contents and parts is not pushed
RECURSIVE InterpolatePartsDropEmpty(_, _, _, _, _)
InterpolatePartsDropEmpty(st, j, out, ctx, ord) ==
  IF j > Len(st.parts) THEN [ok |-> TRUE, story |-> out]
  ELSE LET interpolated_part == Interpolate(st.parts[j], ctx, ord)
       IN IF ~interpolated_part.ok THEN interpolated_part
          ELSE IF interpolated_part.story.contents = <<>>
                  /\ interpolated_part.story.parts = <<>>
                 THEN InterpolatePartsDropEmpty(st, j + 1, out, ctx, ord)
                 ELSE InterpolatePartsDropEmpty(st, j + 1,
                        PushPart(out, interpolated_part.story), ctx, ord)

\* faulty variant: the error of a part is reported anew by the level above,
\* without its place in the text
RECURSIVE InterpolatePartsRewriteError(_, _, _, _, _)
InterpolatePartsRewriteError(st, j, out, ctx, ord) ==
  IF j > Len(st.parts) THEN [ok |-> TRUE, story |-> out]
  ELSE LET interpolated_part == Interpolate(st.parts[j], ctx, ord)
       IN IF ~interpolated_part.ok
            THEN [ok |-> FALSE,
                  error |-> [line |-> 0, col |-> 0,
                             message |-> interpolated_part.error.message]]
            ELSE InterpolatePartsRewriteError(st, j + 1,
                   PushPart(out, interpolated_part.story), ctx, ord)

InterpolateParts(st, j, out, ctx, ord) ==
  IF j > Len(st.parts) THEN [ok |-> TRUE, story |-> out]
  ELSE LET interpolated_part == Interpolate(st.parts[j], ctx, ord)
       IN IF ~interpolated_part.ok THEN interpolated_part
          ELSE InterpolateParts(st, j + 1, PushPart(out, interpolated_part.story),
                                ctx, ord)

\* faulty variant: a content that resolves to the empty text is not pushed
RECURSIVE InterpolateContentsSkipEmpty(_, _, _, _, _)
InterpolateContentsSkipEmpty(st, i, out, ctx, ord) ==
  IF i > Len(st.contents) THEN InterpolateParts(st, 1, out, ctx, ord)
  ELSE LET parsed_source == Parse(st.contents[i])
           joined == IF parsed_source.ok
                       THEN JoinExpressions(parsed_source.pairs, 1, ctx, ord)
                       ELSE <<>>
       IN IF ~parsed_source.ok
            THEN [ok |-> FALSE, error |-> parsed_source.error]
            ELSE InterpolateContentsSkipEmpty(st, i + 1,
                   IF joined = <<>> THEN out ELSE PushContent(out, joined),
                   ctx, ord)

\* faulty variant: the text buffer is kept from one content to the next, so
\* a content starts with the resolved text of the one before it
RECURSIVE InterpolateContentsSharedBuffer(_, _, _, _, _)
InterpolateContentsSharedBuffer(st, i, out, ctx, ord) ==
  IF i > Len(st.contents) THEN InterpolateParts(st, 1, out, ctx, ord)
  ELSE LET parsed_source == Parse(st.contents[i])
           before == IF out.contents = <<>> THEN <<>>
                     ELSE out.contents[Len(out.contents)]
       IN IF ~parsed_source.ok
            THEN [ok |-> FALSE, error |-> parsed_source.error]
            ELSE InterpolateContentsSharedBuffer(st, i + 1,
                   PushContent(out, before
                                    \o JoinExpressions(parsed_source.pairs, 1, ctx, ord)),
                   ctx, ord)

InterpolateContents(st, i, out, ctx, ord) ==
  IF i > Len(st.contents) THEN InterpolateParts(st, 1, out, ctx, ord)
  ELSE LET parsed_source == Parse(st.contents[i])
       IN IF ~parsed_source.ok
            THEN [ok |-> FALSE, error |-> parsed_source.error]
            ELSE InterpolateContents(st, i + 1,
                   PushContent(out, JoinExpressions(parsed_source.pairs, 1, ctx, ord)),
                   ctx, ord)

Interpolate(st, ctx, ord) == InterpolateContents(st, 1, StoryNew(st.title), ctx, ord)

\* faulty variant: only the first component of the identifier is listed
RECURSIVE CheckExpressionsFirstOnly(_, _)
CheckExpressionsFirstOnly(pairs, i) ==
  IF i > Len(pairs) THEN <<>>
  ELSE (IF pairs[i].rule = "string_interpolation"
          THEN <<pairs[i].names[1]>> ELSE <<>>)
       \o CheckExpressionsFirstOnly(pairs, i + 1)

\* faulty variant: only the identifiers whose first key is in the context are
\* listed
RECURSIVE CheckExpressionsResolvedOnly(_, _)
CheckExpressionsResolvedOnly(pairs, i) ==
  IF i > Len(pairs) THEN <<>>
  ELSE (IF /\ pairs[i].rule = "string_interpolation"
           /\ MapGet(Variables(context), pairs[i].names[1]) # None
          THEN <<pairs[i].identifier>> ELSE <<>>)
       \o CheckExpressionsResolvedOnly(pairs, i + 1)

\* the identifiers one content adds to checked_story
RECURSIVE CheckExpressions(_, _)
CheckExpressions(pairs, i) ==
  IF i > Len(pairs) THEN <<>>
  ELSE (IF pairs[i].rule = "string_interpolation"
          THEN <<pairs[i].identifier>> ELSE <<>>)
       \o CheckExpressions(pairs, i + 1)

\* StoryInterpolator::check
RECURSIVE Check(_)
RECURSIVE CheckParts(_, _, _)
RECURSIVE CheckContents(_, _, _)
\* faulty variant: an identifier already listed is not listed again
RECURSIVE CheckPartsDedup(_, _, _)
CheckPartsDedup(st, j, checked_story) ==
  IF j > Len(st.parts) THEN [ok |-> TRUE, ids |-> checked_story]
  ELSE LET checked_part == Check(st.parts[j])
           seen == {checked_story[k] : k \in DOMAIN checked_story}
       IN IF ~checked_part.ok THEN checked_part
          ELSE CheckPartsDedup(st, j + 1,
                 checked_story \o SelectSeq(checked_part.ids, LAMBDA x : x \notin seen))

CheckParts(st, j, checked_story) ==
  IF j > Len(st.parts) THEN [ok |-> TRUE, ids |-> checked_story]
  ELSE LET checked_part == Check(st.parts[j])
       IN IF ~checked_part.ok THEN checked_part
          ELSE CheckParts(st, j + 1, checked_story \o checked_part.ids)

CheckContents(st, i, checked_story) ==
  IF i > Len(st.contents) THEN CheckParts(st, 1, checked_story)
  ELSE LET parsed_source == Parse(st.contents[i])
       IN IF ~parsed_source.ok
            THEN [ok |-> FALSE, error |-> parsed_source.error]
            ELSE CheckContents(st, i + 1,
                   checked_story \o CheckExpressions(parsed_source.pairs, 1))

Check(st) == CheckContents(st, 1, <<>>)

\* ManuscriptBuilder::build_chapter: the order in which the contents of a
\* story are laid into the manuscript
RECURSIVE ManuscriptOrder(_)
RECURSIVE ManuscriptOrderParts(_, _)
ManuscriptOrderParts(st, j) ==
  IF j > Len(st.parts) THEN <<>>
  ELSE ManuscriptOrder(st.parts[j]) \o ManuscriptOrderParts(st, j + 1)

ManuscriptOrder(st) == st.contents \o ManuscriptOrderParts(st, 1)

(***************************************************************************)
(* Inputs of the model: texts, contexts and directories.                   *)
(***************************************************************************)
SeqsUpTo(S, n) == UNION {[1..k -> S] : k \in 0..n}

Open == <<"{", "{">>

Close == <<"}", "}">>

Ka == <<"a">>

Kb == <<"b">>

Kc == <<"c">>

Knames == <<"n", "a", "m", "e", "s">>

Kmc == <<"m", "c">>

Kname == <<"n", "a", "m", "e">>

Kfirst == <<"f", "i", "r", "s", "t">>

Core == <<"C", "o", "r", "e">>

Alyssa == <<"A", "l", "y", "s", "s", "a">>

\* "Hi, {{ names.mc }}."
TextHiCore ==
  <<"H", "i", ",", " ">> \o Open \o <<" ">> \o Knames \o <<".">> \o Kmc
  \o <<" ">> \o Close \o <<".">>

\* "{{ a.b.c }}"
TextAbc == Open \o <<" ", "a", ".", "b", ".", "c", " ">> \o Close

\* "{{ name.first }}"
TextNameFirst == Open \o <<" ">> \o Kname \o <<".">> \o Kfirst \o <<" ">> \o Close

\* "{{ variable1 }} separator {{ variable2 }}"
TextCheckWorks ==
  Open \o <<" ", "v", "a", "r", "i", "a", "b", "l", "e", "1", " ">> \o Close
  \o <<" ", "s", "e", "p", "a", "r", "a", "t", "o", "r", " ">>
  \o Open \o <<" ", "v", "a", "r", "i", "a", "b", "l", "e", "2", " ">> \o Close

\* the texts of parser_tests::parses_string_interpolation and of
\* tests/markdown_parser.rs
TextName == Open \o <<" ">> \o Kname \o <<" ">> \o Close

TextEmptyBody == Open \o <<" ">> \o Close

Text32 == Open \o <<" ", "3", "2", " ">> \o Close

TextName32 == Open \o <<" ">> \o Kname \o <<"3", "2", " ">> \o Close

TextName_32 == Open \o <<" ">> \o Kname \o <<"_", "3", "2", " ">> \o Close

TextName_32Long ==
  Open \o <<" ">> \o Kname \o <<"_", "3", "2", ".", "l", "o", "n", "g", " ">> \o Close

TextName_32DotDotLong ==
  Open \o <<" ">> \o Kname \o <<"_", "3", "2", ".", ".", "l", "o", "n", "g", " ">>
  \o Close

TextPunct == Open \o <<" ", "?", "#", "@", "#", " ">> \o Close

\* "{{ a }}{{ a }}" and "{{a.b}}x\n{{ a . b }}"
TextTwice == Open \o <<" ", "a", " ">> \o Close \o Open \o <<" ", "a", " ">> \o Close

TextSpaced ==
  Open \o <<"a", ".", "b">> \o Close \o <<"x", "\n">>
  \o Open \o <<" ", "a", " ", ".", " ", "b", " ">> \o Close

\* "{{ a }}\n{{ b": a placeholder, then an opener that is never closed
TextUnclosed ==
  Open \o <<" ", "a", " ">> \o Close \o <<"\n">> \o Open \o <<" ", "b">>

ExampleTexts ==
  {TextHiCore, TextAbc, TextNameFirst, TextCheckWorks, TextName, TextEmptyBody,
   Text32, TextName32, TextName_32, TextName_32Long, TextName_32DotDotLong,
   TextPunct, TextTwice, TextSpaced, TextUnclosed}

BodyChars == {" ", "a", ".", "3", "_", "?"}

LitChars == {"x", "{", "}", " ", "\n"}

Wraps == {[pre |-> <<>>, post |-> <<>>], [pre |-> <<"x", "\n", "y">>, post |-> <<".">>]}

PlaceholderTexts ==
  {w.pre \o Open \o body \o Close \o w.post :
     body \in SeqsUpTo(BodyChars, MaxBody), w \in Wraps}

LiteralTexts == SeqsUpTo(LitChars, MaxLit)

Texts == PlaceholderTexts \cup LiteralTexts \cup ExampleTexts

CtxNames == ContextFrom((Knames :> DObject((Kmc :> DString(Core)))))

CtxName == ContextFrom((Kname :> DString(Alyssa)))

CtxA == ContextFrom((Ka :> DObject((Kb :> DNumber(-12)) @@ (Kc :> DBoolean(FALSE))))
                    @@ (Kb :> DString(<<"v">>)))

CtxDeep ==
  ContextFrom((Ka :> DObject((Kb :> DObject((Kc :> DString(<<"d">>))
                                            @@ (Ka :> DNumber(105)))))))

\* {a: "v"}
CtxV == ContextFrom((Ka :> DString(<<"v">>)))

TextContexts == {ContextNew, CtxNames, CtxName, CtxA}

\* the generated placeholder bodies hold no key but a: for them the contexts
\* without that key behave as the empty one
GeneratedContexts == {ContextNew, CtxV}

\* contexts over the keys a, b: scalars, and objects of scalars
CtxKeys == {Ka, Kb}

CtxScalars == {DString(<<"v">>), DNumber(7), DBoolean(TRUE)}

Maps(V) == UNION {[K -> V] : K \in SUBSET CtxKeys}

Data1 == CtxScalars \cup {DObject(m) : m \in Maps(CtxScalars)}

Contexts == {ContextFrom(m) : m \in Maps(Data1)} \cup {CtxDeep, CtxA, CtxNames, CtxName}

RECURSIVE JoinPath(_)
JoinPath(path) ==
  IF Len(path) = 1 THEN path[1] ELSE path[1] \o <<".">> \o JoinPath(Tail(path))

Paths == SeqsUpTo(CtxKeys, MaxPath) \ {<<>>}

\* a text with one placeholder, with the path it spells and the literals around
PathCase(pre, path, post) ==
  [text |-> pre \o Open \o <<" ">> \o JoinPath(path) \o <<" ">> \o Close \o post,
   pre |-> pre, path |-> path, post |-> post]

PathCases ==
  {PathCase(w.pre, path, w.post) : path \in Paths, w \in Wraps}
  \cup {PathCase(<<"H", "i", ",", " ">>, <<Knames, Kmc>>, <<".">>),
        PathCase(<<>>, <<Kname, Kfirst>>, <<>>),
        PathCase(<<>>, <<Ka, Kb, Kc>>, <<>>),
        PathCase(<<"x">>, <<Ka, Kc>>, <<>>),
        PathCase(<<>>, <<Kname>>, <<>>)}

\* a draft directory with one scene
SceneDirectory(text) ==
  PushItem(DirectoryNew("draft"), FileItem("scene.mt", text, <<"mt">>))

\* directories: the forests of at most MaxNodes files and directories
TreeFiles ==
  {FileItem("one.mt", Open \o <<" ", "a", " ">> \o Close, <<"mt">>),
   FileItem("two.mt", Open \o <<"b", ".", "c">> \o Close \o <<"x">> \o Open
                      \o <<" ", "a", " ">> \o Close, <<"mt">>),
   FileItem("bad.mt", <<"x", "\n">> \o Open \o <<" ", "3", " ">> \o Close, <<"mt">>),
   FileItem("notes.txt", Open, <<"txt">>)}

RECURSIVE Forests(_)
RECURSIVE Trees(_)
Trees(n) ==
  IF n = 1
    THEN TreeFiles \cup {DirectoryItem(DirectoryNew("ch"))}
    ELSE {DirectoryItem([name |-> "ch", contents |-> f]) : f \in Forests(n - 1)}

Forests(n) ==
  IF n = 0 THEN {<<>>}
  ELSE UNION {{<<t>> \o f : t \in Trees(k), f \in Forests(n - k)} : k \in 1..n}

Directories ==
  {[name |-> "draft", contents |-> f] : f \in UNION {Forests(n) : n \in 0..MaxNodes}}

\* the files of the drafts that are walked step by step: two malformed
\* scenes whose errors differ in line
WalkFiles ==
  {FileItem("one.mt", Open \o <<" ", "a", " ">> \o Close, <<"mt">>),
   FileItem("bad1.mt", Open \o <<" ", "3", " ">> \o Close, <<"mt">>),
   FileItem("bad2.mt", <<"x", "\n">> \o Open \o <<" ", "3", " ">> \o Close, <<"mt">>)}

RECURSIVE WalkForests(_)
RECURSIVE WalkTrees(_)
WalkTrees(n) ==
  IF n = 1
    THEN WalkFiles \cup {DirectoryItem(DirectoryNew("ch"))}
    ELSE {DirectoryItem([name |-> "ch", contents |-> f]) : f \in WalkForests(n - 1)}

WalkForests(n) ==
  IF n = 0 THEN {<<>>}
  ELSE UNION {{<<t>> \o f : t \in WalkTrees(k), f \in WalkForests(n - k)} : k \in 1..n}

WalkDirectories ==
  {[name |-> "draft", contents |-> f] :
     f \in UNION {WalkForests(n) : n \in 0..MaxWalkNodes}}

\* string values that read as template syntax: a placeholder for the other
\* key, a placeholder for the key itself, a lone opener
BraceValues ==
  {Open \o <<" ", "b", " ">> \o Close,
   Open \o <<" ", "a", " ">> \o Close,
   Open}

BraceContexts ==
  {ContextFrom((Ka :> DString(v)) @@ (Kb :> DString(w))) :
     v \in BraceValues, w \in {<<"w">>, Open}}

\* a text as its pieces: a literal, or the placeholder of a key
Pieces ==
  {[kind |-> "lit", str |-> <<"x">>], [kind |-> "lit", str |-> <<"\n">>],
   [kind |-> "key", str |-> Ka], [kind |-> "key", str |-> Kb]}

PieceTexts == SeqsUpTo(Pieces, MaxPieces) \ {<<>>}

\* the template text of the pieces
RECURSIVE Spell(_)
Spell(pieces) ==
  IF pieces = <<>> THEN <<>>
  ELSE (IF Head(pieces).kind = "key"
          THEN Open \o <<" ">> \o Head(pieces).str \o <<" ">> \o Close
          ELSE Head(pieces).str)
       \o Spell(Tail(pieces))

\* what the calls on a Story under construction are given: scene texts, and
\* parts built before, the chapter of the doc example among them
PushedTexts == {<<"I", "1">>, <<"I", "2">>}

PushedParts ==
  {StoryNew("Chapter 1"),
   PushContent(PushContent(StoryNew("Chapter 1"), <<"I", "1">>), <<"I", "2">>),
   PushPart(StoryNew("Act"), StoryNew("Chapter 1"))}

TreeContexts == {ContextNew, CtxV}

(***************************************************************************)
(* The table of a Context.toml (toml::Table, a map sorted by key, of      *)
(* toml::Value) and Context::parse.                                        *)
(***************************************************************************)
TString(v) == [t |-> "String", v |-> v]

TInteger(n) == [t |-> "Integer", v |-> n]

TFloat(n) == [t |-> "Float", v |-> n]

TBoolean(b) == [t |-> "Boolean", v |-> b]

TDatetime(v) == [t |-> "Datetime", v |-> v]

TArray(a) == [t |-> "Array", v |-> a]

TTable(m) == [t |-> "Table", v |-> m]

\* table.iter(): the keys of the table in their sorted order
KeyOrder == <<Ka, Kb, Kc, Kmc, Knames>>

TableIter(table) == SelectSeq(KeyOrder, LAMBDA k : k \in DOMAIN table)

\* HashMap::insert
MapInsert(m, key, value) == (key :> value) @@ m

\* Context::parse_variables: the loop over the keys left, variables is the
\* map filled so far
RECURSIVE ParseVariables(_)
RECURSIVE ParseVariablesFrom(_, _, _)
\* faulty variant: a value that is not supported is left out and the loop
\* goes on
RECURSIVE ParseVariablesFromSkipUnsupported(_, _, _)
ParseVariablesFromSkipUnsupported(table, keys, variables) ==
  IF keys = <<>> THEN [ok |-> TRUE, variables |-> variables]
  ELSE LET key == Head(keys)
           value == table[key]
           object_value == IF value.t = "Table" THEN ParseVariables(value.v)
                           ELSE [ok |-> FALSE]
       IN CASE value.t = "String" ->
                 ParseVariablesFromSkipUnsupported(table, Tail(keys),
                   MapInsert(variables, key, DString(value.v)))
            [] value.t \in {"Integer", "Float"} ->
                 ParseVariablesFromSkipUnsupported(table, Tail(keys),
                   MapInsert(variables, key, DNumber(value.v)))
            [] value.t = "Boolean" ->
                 ParseVariablesFromSkipUnsupported(table, Tail(keys),
                   MapInsert(variables, key, DBoolean(value.v)))
            [] value.t = "Table" ->
                 IF ~object_value.ok THEN object_value
                 ELSE ParseVariablesFromSkipUnsupported(table, Tail(keys),
                        MapInsert(variables, key, DObject(object_value.variables)))
            [] OTHER -> ParseVariablesFromSkipUnsupported(table, Tail(keys), variables)

ParseVariablesFrom(table, keys, variables) ==
  IF keys = <<>> THEN [ok |-> TRUE, variables |-> variables]
  ELSE LET key == Head(keys)
           value == table[key]
           object_value == IF value.t = "Table" THEN ParseVariables(value.v)
                           ELSE [ok |-> FALSE]
       IN CASE value.t = "String" ->
                 ParseVariablesFrom(table, Tail(keys),
                   MapInsert(variables, key, DString(value.v)))
            [] value.t = "Integer" ->
                 ParseVariablesFrom(table, Tail(keys),
                   MapInsert(variables, key, DNumber(value.v)))
            [] value.t = "Float" ->
                 ParseVariablesFrom(table, Tail(keys),
                   MapInsert(variables, key, DNumber(value.v)))
            [] value.t = "Boolean" ->
                 ParseVariablesFrom(table, Tail(keys),
                   MapInsert(variables, key, DBoolean(value.v)))
            [] value.t = "Table" ->
                 IF ~object_value.ok THEN object_value
                 ELSE ParseVariablesFrom(table, Tail(keys),
                        MapInsert(variables, key, DObject(object_value.variables)))
            [] OTHER -> [ok |-> FALSE, error |-> "UnsupportedValue"]

ParseVariables(table) == ParseVariablesFrom(table, TableIter(table), Variables(ContextNew))

\* Context::parse, from the table that source.parse::<Table>() gives
ContextParse(table) ==
  LET variables == ParseVariables(table)
  IN IF ~variables.ok THEN variables
     ELSE [ok |-> TRUE, context |-> ContextFrom(variables.variables)]

\* the tables: over the keys a and b, values that are scalars, arrays, dates
\* or tables of those
TomlScalars ==
  {TString(<<"v">>), TInteger(7), TFloat(105), TBoolean(TRUE),
   TArray(<<TInteger(7)>>), TDatetime(<<"1", "9", "7", "9">>)}

TomlMaps(V) == UNION {[K -> V] : K \in SUBSET CtxKeys}

\* [names] mc = "Core"
TomlDefault == (Knames :> TTable((Kmc :> TString(Core))))

\* a = 7, and an array three tables deep: [b.a.c] mc = [7]
TomlDeepInner == (Kc :> TTable((Kmc :> TArray(<<TInteger(7)>>))))

TomlDeep ==
  (Ka :> TInteger(7))
  @@ (Kb :> TTable((Ka :> TTable(TomlDeepInner)) @@ (Kb :> TBoolean(TRUE))))

Tomls ==
  TomlMaps(TomlScalars \cup {TTable(m) : m \in TomlMaps(TomlScalars)})
  \cup {TomlDefault, TomlDeep}

(***************************************************************************)
(* The word count of the title page: u32::to_string and                    *)
(* with_thousands_separator, which works on the bytes of the string.       *)
(***************************************************************************)
DigitChars == <<"0", "1", "2", "3", "4", "5", "6", "7", "8", "9">>

\* word_count.to_string(): the decimal digits of a u32, no sign, no padding
RECURSIVE U32ToString(_)
U32ToString(n) ==
  IF n < 10 THEN <<DigitChars[n + 1]>>
  ELSE U32ToString(n \div 10) \o <<DigitChars[(n % 10) + 1]>>

\* as_bytes(): the UTF-8 bytes of the text; a digit is the byte 48 + digit,
\* the comma is the byte 44
ByteOf(c) ==
  IF c = "," THEN 44
  ELSE 47 + (CHOOSE d \in DOMAIN DigitChars : DigitChars[d] = c)

AsBytes(s) == [i \in DOMAIN s |-> ByteOf(s[i])]

\* std::str::from_utf8 on one chunk: a chunk of bytes below 128 is the text
\* of its characters, any chunk that cuts a longer encoding is an error
FromUtf8(bytes) ==
  IF \A i \in DOMAIN bytes : bytes[i] < 128
    THEN [ok |-> TRUE,
          str |-> [i \in DOMAIN bytes |->
                     IF bytes[i] = 44 THEN "," ELSE DigitChars[bytes[i] - 47]]]
    ELSE [ok |-> FALSE, error |-> "Utf8Error"]

\* slice.rchunks(n): chunks of n bytes taken from the end of the slice, the
\* last chunk produced (the start of the slice) may be shorter
RECURSIVE RChunks(_, _)
RChunks(bytes, n) ==
  IF bytes = <<>> THEN <<>>
  ELSE IF Len(bytes) <= n THEN <<bytes>>
  ELSE <<SubSeq(bytes, Len(bytes) - n + 1, Len(bytes))>>
         \o RChunks(SubSeq(bytes, 1, Len(bytes) - n), n)

\* Iterator::rev
Rev(s) == [i \in DOMAIN s |-> s[Len(s) + 1 - i]]

\* [&str]::join(sep)
RECURSIVE JoinStr(_, _)
JoinStr(strs, sep) ==
  IF strs = <<>> THEN <<>>
  ELSE IF Len(strs) = 1 THEN strs[1]
  ELSE strs[1] \o sep \o JoinStr(Tail(strs), sep)

\* faulty variant: the chunks stay in the order rchunks yields them, the
\* last three characters first
WithThousandsSeparatorNoRev(s) ==
  LET chunks == RChunks(AsBytes(s), 3)
      strs == [i \in DOMAIN chunks |-> FromUtf8(chunks[i])]
  IN IF \E i \in DOMAIN strs : ~strs[i].ok
       THEN [ok |-> FALSE, error |-> "panic"]
       ELSE [ok |-> TRUE,
             str |-> JoinStr([i \in DOMAIN strs |-> strs[i].str], <<",">>)]

\* with_thousands_separator: rchunks(3), rev, from_utf8 on every chunk,
\* unwrap (a panic on the first chunk that is not UTF-8), join(",")
WithThousandsSeparator(s) ==
  LET chunks == Rev(RChunks(AsBytes(s), 3))
      strs == [i \in DOMAIN chunks |-> FromUtf8(chunks[i])]
  IN IF \E i \in DOMAIN strs : ~strs[i].ok
       THEN [ok |-> FALSE, error |-> "panic"]
       ELSE [ok |-> TRUE,
             str |-> JoinStr([i \in DOMAIN strs |-> strs[i].str], <<",">>)]

RECURSIVE Pow10(_)
Pow10(k) == IF k = 0 THEN 1 ELSE 10 * Pow10(k - 1)

\* word counts of up to MaxDigits digits: every length, with zeros and
\* non-zero digits at the places where a comma goes
WordCounts ==
  {a * Pow10(k) + b : a \in 0..9, k \in 0..(MaxDigits - 1), b \in {0, 1, 7}}

(***************************************************************************)
(* The program: MakinilyaCore::build reads the draft directory into a      *)
(* Story and interpolates it against the context, MakinilyaCore::check     *)
(* lists its identifiers.                                                  *)
(***************************************************************************)
NoStory == [none |-> TRUE]

NoResult == [none |-> TRUE]

RECURSIVE MapKeys(_)
MapKeys(m) ==
  DOMAIN m \cup UNION {IF m[k].t = "Object" THEN MapKeys(m[k].v) ELSE {} : k \in DOMAIN m}

\* the iteration orders the hasher of the maps can produce
HashOrders(ctx) ==
  LET K == MapKeys(Variables(ctx))
  IN {f \in [1..Cardinality(K) -> K] : \A i, j \in DOMAIN f : f[i] = f[j] => i = j}

\* no call of check or interpolate under way, none made
NoWalk ==
  [op |-> "none", ord |-> <<>>, stack |-> <<>>,
   visited |-> [check |-> <<>>, interpolate |-> <<>>],
   entered |-> [check |-> <<>>, interpolate |-> <<>>]]

InitCommon ==
  /\ story = NoStory /\ res = NoResult /\ chk = NoResult /\ parsed = NoResult
  /\ walk = NoWalk

\* no Context.toml parsed on its own, no word count formatted, no Story under
\* construction
ContextIdle == toml = Variables(ContextNew) /\ loaded = NoResult

TitlePageIdle == count = 0 /\ separated = NoResult

StoryIdle == draft = NoStory /\ calls = <<>>

\* no draft directory read
ProgramIdle == dir = DirectoryNew("draft") /\ context = ContextNew /\ InitCommon

InitText ==
  /\ \/ /\ \E text \in ExampleTexts \cup LiteralTexts : dir = SceneDirectory(text)
        /\ context \in TextContexts
     \/ /\ \E text \in PlaceholderTexts : dir = SceneDirectory(text)
        /\ context \in GeneratedContexts
  /\ InitCommon
  /\ ContextIdle /\ TitlePageIdle /\ StoryIdle

InitCtx ==
  /\ \E c \in PathCases : dir = SceneDirectory(c.text)
  /\ context \in Contexts
  /\ InitCommon
  /\ ContextIdle /\ TitlePageIdle /\ StoryIdle

InitTree ==
  /\ dir \in Directories
  /\ context \in TreeContexts
  /\ InitCommon
  /\ ContextIdle /\ TitlePageIdle /\ StoryIdle

\* MakinilyaCore::init_story
InitStory ==
  /\ story = NoStory
  /\ story' = StoryParse(dir)
  /\ UNCHANGED <<dir, context, res, chk, parsed>>
  /\ UNCHANGED libvars

\* faulty variant: the resolved texts are written into the story that was
\* read
BuildInPlace ==
  /\ story # NoStory
  /\ \E ord \in HashOrders(context) :
       /\ res' = Interpolate(story, context, ord)
       /\ story' = IF res'.ok THEN res'.story ELSE story
  /\ UNCHANGED <<dir, context, chk, parsed>>
  /\ UNCHANGED libvars

\* MakinilyaCore::build
Build ==
  /\ story # NoStory
  /\ \E ord \in HashOrders(context) : res' = Interpolate(story, context, ord)
  /\ UNCHANGED <<dir, context, story, chk, parsed>>
  /\ UNCHANGED libvars

\* MakinilyaCore::check
CheckStory ==
  /\ story # NoStory
  /\ chk' = Check(story)
  /\ UNCHANGED <<dir, context, story, res, parsed>>
  /\ UNCHANGED libvars

\* MakinilyaText::parse called on the text of the first scene of the draft,
\* as the parser tests call it
ParseText ==
  /\ dir.contents # <<>>
  /\ dir.contents[1].kind = "File"
  /\ dir.contents[1].extension = <<MAKINILYA_TEXT_EXTENSION>>
  /\ parsed' = Parse(FromUtf8Lossy(dir.contents[1].content))
  /\ UNCHANGED <<dir, context, story, res, chk>>
  /\ UNCHANGED libvars

Next == InitStory \/ Build \/ CheckStory \/ ParseText

SpecText == InitText /\ [][Next]_vars

SpecCtx == InitCtx /\ [][Next]_vars

SpecTree == InitTree /\ [][Next]_vars

Spec == SpecText

InitValue ==
  /\ \E pieces \in PieceTexts : dir = SceneDirectory(Spell(pieces))
  /\ context \in BraceContexts
  /\ InitCommon
  /\ ContextIdle /\ TitlePageIdle /\ StoryIdle

SpecValue == InitValue /\ [][Next]_vars

\* Context::parse called on a table
ContextParseTable ==
  /\ loaded' = ContextParse(toml)
  /\ UNCHANGED <<dir, context, story, res, chk, parsed, toml, count, separated, draft,
                 calls, walk>>

InitToml ==
  /\ toml \in Tomls
  /\ loaded = NoResult
  /\ ProgramIdle /\ TitlePageIdle /\ StoryIdle

\* build_title_page: the line "<count> words" of the title page
BuildTitlePage ==
  /\ LET digits == WithThousandsSeparator(U32ToString(count))
     IN separated' = [digits |-> digits.str,
                      word_count |-> digits.str \o <<" ">> \o <<"w", "o", "r", "d", "s">>]
  /\ UNCHANGED <<dir, context, story, res, chk, parsed, toml, loaded, count, draft,
                 calls, walk>>

InitTitlePage ==
  /\ count \in WordCounts
  /\ separated = NoResult
  /\ ProgramIdle /\ ContextIdle /\ StoryIdle

NextTitlePage == BuildTitlePage

SpecTitlePage == InitTitlePage /\ [][NextTitlePage]_vars

\* the frame of one call of check or interpolate: the story it walks, where
\* that story is in the tree (the indices of the parts above it), the loop
\* counters of its two for loops, and checked_story or interpolated_story
Frame(node, path, out) == [node |-> node, path |-> path, i |-> 1, j |-> 1, out |-> out]

Top == walk.stack[Len(walk.stack)]

Walking == walk.op # "none"

InContents == Walking /\ Top.i <= Len(Top.node.contents)

InParts == Walking /\ Top.i > Len(Top.node.contents) /\ Top.j <= Len(Top.node.parts)

AtReturn == Walking /\ Top.i > Len(Top.node.contents) /\ Top.j > Len(Top.node.parts)

\* the local the walk builds: Vec::new() in check, Story::new(story.title())
\* in interpolate
NewOut(op, node) == IF op = "check" THEN <<>> ELSE StoryNew(node.title)

\* the Result the outermost call hands to its caller
SetResult(r) ==
  IF walk.op = "check" THEN chk' = r /\ UNCHANGED res
  ELSE res' = r /\ UNCHANGED chk

ReplaceTop(frame) == SubSeq(walk.stack, 1, Len(walk.stack) - 1) \o <<frame>>

\* MakinilyaText::parse(&content) for the contents of the walked drafts
ParsedSource ==
  [content \in {FromUtf8Lossy(f.content) : f \in WalkFiles} |-> Parse(content)]

\* MakinilyaCore::check calls StoryInterpolator::check on the story read
StartCheck ==
  /\ story # NoStory /\ ~Walking /\ chk = NoResult
  /\ walk' = [walk EXCEPT !.op = "check",
                          !.stack = <<Frame(story, <<>>, NewOut("check", story))>>]
  /\ UNCHANGED <<dir, context, story, res, chk, parsed>>
  /\ UNCHANGED <<toml, loaded, count, separated, draft, calls>>

\* MakinilyaCore::build calls StoryInterpolator::interpolate on the story
StartInterpolate ==
  /\ story # NoStory /\ ~Walking /\ res = NoResult
  /\ \E ord \in HashOrders(context) :
       walk' = [walk EXCEPT !.op = "interpolate", !.ord = ord,
                            !.stack = <<Frame(story, <<>>,
                                              NewOut("interpolate", story))>>]
  /\ UNCHANGED <<dir, context, story, res, chk, parsed>>
  /\ UNCHANGED <<toml, loaded, count, separated, draft, calls>>

\* faulty variant: check passes over a content that does not parse
StepContentCheckLenient ==
  /\ InContents
  /\ LET parsed_source == ParsedSource[Top.node.contents[Top.i]]
         here == <<Top.path, Top.i>>
     IN IF ~parsed_source.ok /\ walk.op = "interpolate"
          THEN /\ walk' = [walk EXCEPT !.op = "none", !.stack = <<>>,
                                       !.visited[walk.op] = Append(@, here)]
               /\ SetResult([ok |-> FALSE, error |-> parsed_source.error])
          ELSE /\ walk' =
                    [walk EXCEPT
                       !.visited[walk.op] = Append(@, here),
                       !.stack = ReplaceTop(
                         [Top EXCEPT
                            !.i = @ + 1,
                            !.out = IF walk.op = "check"
                                      THEN IF parsed_source.ok
                                             THEN @ \o CheckExpressions(parsed_source.pairs, 1)
                                             ELSE @
                                      ELSE PushContent(@,
                                             JoinExpressions(parsed_source.pairs, 1,
                                                             context, walk.ord))])]
               /\ UNCHANGED <<res, chk>>
  /\ UNCHANGED <<dir, context, story, parsed>>
  /\ UNCHANGED <<toml, loaded, count, separated, draft, calls>>

\* faulty variant: the error of a content inside a part ends the call on that
\* part only, the caller goes on with what the part had so far
StepContentErrorStaysInPart ==
  /\ InContents
  /\ LET parsed_source == ParsedSource[Top.node.contents[Top.i]]
         here == <<Top.path, Top.i>>
     IN IF ~parsed_source.ok /\ Len(walk.stack) = 1
          THEN /\ walk' = [walk EXCEPT !.op = "none", !.stack = <<>>,
                                       !.visited[walk.op] = Append(@, here)]
               /\ SetResult([ok |-> FALSE, error |-> parsed_source.error])
          ELSE /\ walk' =
                    [walk EXCEPT
                       !.visited[walk.op] = Append(@, here),
                       !.stack = ReplaceTop(
                         [Top EXCEPT
                            !.i = IF parsed_source.ok THEN @ + 1
                                  ELSE Len(Top.node.contents) + 1,
                            !.out = IF ~parsed_source.ok THEN @
                                    ELSE IF walk.op = "check"
                                      THEN @ \o CheckExpressions(parsed_source.pairs, 1)
                                      ELSE PushContent(@,
                                             JoinExpressions(parsed_source.pairs, 1,
                                                             context, walk.ord))])]
               /\ UNCHANGED <<res, chk>>
  /\ UNCHANGED <<dir, context, story, parsed>>
  /\ UNCHANGED <<toml, loaded, count, separated, draft, calls>>

\* one turn of "for content in story.contents()": the content is parsed, an
\* error leaves every call under way through its ?, a parsed content is
\* added to the local
StepContent ==
  /\ InContents
  /\ LET parsed_source == ParsedSource[Top.node.contents[Top.i]]
         here == <<Top.path, Top.i>>
     IN IF ~parsed_source.ok
          THEN /\ walk' = [walk EXCEPT !.op = "none", !.stack = <<>>,
                                       !.visited[walk.op] = Append(@, here)]
               /\ SetResult([ok |-> FALSE, error |-> parsed_source.error])
          ELSE /\ walk' =
                    [walk EXCEPT
                       !.visited[walk.op] = Append(@, here),
                       !.stack = ReplaceTop(
                         [Top EXCEPT
                            !.i = @ + 1,
                            !.out = IF walk.op = "check"
                                      THEN @ \o CheckExpressions(parsed_source.pairs, 1)
                                      ELSE PushContent(@,
                                             JoinExpressions(parsed_source.pairs, 1,
                                                             context, walk.ord))])]
               /\ UNCHANGED <<res, chk>>
  /\ UNCHANGED <<dir, context, story, parsed>>
  /\ UNCHANGED <<toml, loaded, count, separated, draft, calls>>

\* one turn of "for part in story.parts()": the recursive call on the part
StepEnterPart ==
  /\ InParts
  /\ LET part == Top.node.parts[Top.j]
         path == Append(Top.path, Top.j)
     IN walk' = [walk EXCEPT
                   !.entered[walk.op] = Append(@, path),
                   !.stack = Append(@, Frame(part, path, NewOut(walk.op, part)))]
  /\ UNCHANGED <<dir, context, story, res, chk, parsed>>
  /\ UNCHANGED <<toml, loaded, count, separated, draft, calls>>

\* faulty variant: when a part returns, the loop over the parts ends
StepReturnSkipSiblings ==
  /\ AtReturn
  /\ IF Len(walk.stack) = 1
       THEN /\ walk' = [walk EXCEPT !.op = "none", !.stack = <<>>]
            /\ SetResult(IF walk.op = "check"
                           THEN [ok |-> TRUE, ids |-> Top.out]
                           ELSE [ok |-> TRUE, story |-> Top.out])
       ELSE /\ LET caller == walk.stack[Len(walk.stack) - 1]
               IN walk' =
                    [walk EXCEPT
                       !.stack = SubSeq(@, 1, Len(@) - 2) \o
                         <<[caller EXCEPT
                              !.j = Len(caller.node.parts) + 1,
                              !.out = IF walk.op = "check" THEN @ \o Top.out
                                      ELSE PushPart(@, Top.out)]>>]
            /\ UNCHANGED <<res, chk>>
  /\ UNCHANGED <<dir, context, story, parsed>>
  /\ UNCHANGED <<toml, loaded, count, separated, draft, calls>>

\* Ok(checked_story) / Ok(interpolated_story): the call returns; its caller
\* appends what it returned (check) or pushes it as a part (interpolate)
\* and goes on to its next part
StepReturn ==
  /\ AtReturn
  /\ IF Len(walk.stack) = 1
       THEN /\ walk' = [walk EXCEPT !.op = "none", !.stack = <<>>]
            /\ SetResult(IF walk.op = "check"
                           THEN [ok |-> TRUE, ids |-> Top.out]
                           ELSE [ok |-> TRUE, story |-> Top.out])
       ELSE /\ LET caller == walk.stack[Len(walk.stack) - 1]
               IN walk' =
                    [walk EXCEPT
                       !.stack = SubSeq(@, 1, Len(@) - 2) \o
                         <<[caller EXCEPT
                              !.j = @ + 1,
                              !.out = IF walk.op = "check" THEN @ \o Top.out
                                      ELSE PushPart(@, Top.out)]>>]
            /\ UNCHANGED <<res, chk>>
  /\ UNCHANGED <<dir, context, story, parsed>>
  /\ UNCHANGED <<toml, loaded, count, separated, draft, calls>>

InitWalk ==
  /\ dir \in WalkDirectories
  /\ context \in TreeContexts
  /\ InitCommon
  /\ ContextIdle /\ TitlePageIdle /\ StoryIdle

WalkStep == StepContent \/ StepEnterPart \/ StepReturn

NextWalk == InitStory \/ StartCheck \/ StartInterpolate \/ WalkStep

SpecWalk == InitWalk /\ [][NextWalk]_vars

\* a call that has started runs on until it returns: nothing in it waits
SpecWalkFair == SpecWalk /\ WF_vars(WalkStep)

\* story.push_part(part) on the Story under construction
PushPartCall ==
  /\ draft # NoStory /\ Len(calls) < MaxPush
  /\ \E part \in PushedParts :
       /\ draft' = PushPart(draft, part)
       /\ calls' = Append(calls, [fn |-> "push_part", arg |-> part])
  /\ UNCHANGED <<dir, context, story, res, chk, parsed, toml, loaded, count, separated, walk>>

\* story.push_content(source) on the Story under construction
PushContentCall ==
  /\ draft # NoStory /\ Len(calls) < MaxPush
  /\ \E source \in PushedTexts :
       /\ draft' = PushContent(draft, source)
       /\ calls' = Append(calls, [fn |-> "push_content", arg |-> source])
  /\ UNCHANGED <<dir, context, story, res, chk, parsed, toml, loaded, count, separated, walk>>

\* let mut story = Story::new(title)
InitPush ==
  /\ draft \in {StoryNew("root"), StoryNew("Chapter 1")}
  /\ calls = <<>>
  /\ ProgramIdle /\ ContextIdle /\ TitlePageIdle

NextPush == PushPartCall \/ PushContentCall

SpecPush == InitPush /\ [][NextPush]_vars

NextContext == ContextParseTable

SpecToml == InitToml /\ [][NextContext]_vars

(***************************************************************************)
(* Properties.                                                             *)
(***************************************************************************)
\* the text of the only scene of the draft directory
SceneText == dir.contents[1].content

Built == res # NoResult

Checked == chk # NoResult

\* the resolved text of the only scene
ResolvedText == res.story.contents[1]

\* dotted-path lookup: walks the maps component by component; not found when
\* a key is absent or the value reached is not an Object while components remain
RECURSIVE Lookup(_, _)
Lookup(m, path) ==
  IF Head(path) \notin DOMAIN m THEN None
  ELSE IF Len(path) = 1 THEN m[Head(path)]
  ELSE IF m[Head(path)].t # "Object" THEN None
  ELSE Lookup(m[Head(path)].v, Tail(path))

\* the walk through Objects reaches a map that lacks the next key
RECURSIVE KeyAbsent(_, _)
KeyAbsent(m, path) ==
  \/ Head(path) \notin DOMAIN m
  \/ /\ Len(path) > 1
     /\ m[Head(path)].t = "Object"
     /\ KeyAbsent(m[Head(path)].v, Tail(path))

\* the walk reaches a value that is not an Object while components remain
RECURSIVE TypeIncompatible(_, _)
TypeIncompatible(m, path) ==
  /\ Len(path) > 1
  /\ Head(path) \in DOMAIN m
  /\ \/ m[Head(path)].t # "Object"
     \/ TypeIncompatible(m[Head(path)].v, Tail(path))

\* C1: in build mode a placeholder whose path walks through nested Objects to
\* an existing value is replaced, in place, by the string form of that value
\* ("Hi, {{ names.mc }}." with {names: {mc: "Core"}} gives "Hi, Core.").
C1_NestedResolution ==
  Built =>
    \A c \in PathCases :
      (SceneText = c.text /\ Lookup(Variables(context), c.path) # None) =>
        /\ res.ok
        /\ \E ord \in HashOrders(context) :
             ResolvedText
               = c.pre \o DataToString(Lookup(Variables(context), c.path), ord) \o c.post
        /\ (c.path = <<Knames, Kmc>> /\ context = CtxNames) =>
             ResolvedText = <<"H", "i", ",", " ", "C", "o", "r", "e", ".">>

C1_Witness ==
  /\ Built
  /\ SceneText = TextHiCore
  /\ context = CtxNames
  /\ res.ok
  /\ ResolvedText = <<"H", "i", ",", " ", "C", "o", "r", "e", ".">>

\* C2: in build mode a valid placeholder whose path has a key absent from the
\* context, at the first component or at a nested level, is replaced by the
\* empty string and interpolate returns Ok.
C2_MissingPath ==
  Built =>
    \A c \in PathCases :
      (SceneText = c.text /\ KeyAbsent(Variables(context), c.path)) =>
        res.ok /\ ResolvedText = c.pre \o c.post

C2_Witness ==
  /\ Built
  /\ \E c \in PathCases :
       /\ SceneText = c.text
       /\ Len(c.path) = 3
       /\ c.path[1] \in DOMAIN Variables(context)
       /\ KeyAbsent(Variables(context), c.path)
       /\ c.pre # <<>>
  /\ res.ok
  /\ ResolvedText = <<"x", "\n", "y", ".">>

\* C3: in build mode, when the walk of a placeholder's path reaches a value
\* that is not an Object while components remain, the placeholder is replaced
\* by the empty string.
C3_TypeIncompatible ==
  Built =>
    \A c \in PathCases :
      (SceneText = c.text /\ TypeIncompatible(Variables(context), c.path)) =>
        res.ok /\ ResolvedText = c.pre \o c.post

\* all content texts of a story, at any depth
RECURSIVE AllContents(_)
AllContents(st) ==
  {st.contents[i] : i \in DOMAIN st.contents}
  \cup UNION {AllContents(st.parts[j]) : j \in DOMAIN st.parts}

\* C4: if any content anywhere in the tree fails to parse, interpolate and
\* check return an error and neither a partial tree nor a partial identifier
\* list, however many other contents are well-formed.
C4_AbortOnError ==
  (story # NoStory /\ \E c \in AllContents(story) : ~Parse(c).ok) =>
    /\ Built => (~res.ok /\ DOMAIN res = {"ok", "error"})
    /\ Checked => (~chk.ok /\ DOMAIN chk = {"ok", "error"})

C4_Witness ==
  /\ story # NoStory
  /\ Len(story.contents) >= 1
  /\ \A i \in DOMAIN story.contents : Parse(story.contents[i]).ok
  /\ Len(story.parts) = 1
  /\ story.parts[1].contents = <<>>
  /\ Len(story.parts[1].parts) = 1
  /\ \E c \in AllContents(story.parts[1].parts[1]) : ~Parse(c).ok
  /\ Built /\ ~res.ok
  /\ Checked /\ ~chk.ok

\* same titles, same number of parts and of contents at every node
RECURSIVE SameShape(_, _)
SameShape(a, b) ==
  /\ a.title = b.title
  /\ Len(a.contents) = Len(b.contents)
  /\ Len(a.parts) = Len(b.parts)
  /\ \A j \in DOMAIN a.parts : SameShape(a.parts[j], b.parts[j])

\* C5: when interpolate succeeds the output tree has the shape of the input:
\* same title at every node, same number and order of parts and of contents,
\* an empty part stays empty; only content text may differ.
C5_ShapePreserved ==
  (Built /\ res.ok) => SameShape(story, res.story)

C5_Witness ==
  /\ Built /\ res.ok
  /\ Len(story.contents) >= 1
  /\ Len(story.parts) = 2
  /\ story.parts[1] = StoryNew("ch")
  /\ Len(story.parts[2].contents) = 1
  /\ res.story.parts[1] = StoryNew("ch")
  /\ res.story # story

\* number of "{{" openers of a text
CountOpeners(s) == Cardinality({i \in 1..Len(s) : IsOpener(s, i)})

RECURSIVE SumOver(_, _, _)
SumOver(f(_), seq, i) ==
  IF i > Len(seq) THEN 0 ELSE f(seq[i]) + SumOver(f, seq, i + 1)

RECURSIVE TotalOpeners(_)
TotalOpeners(st) == SumOver(CountOpeners, st.contents, 1) + SumOver(TotalOpeners, st.parts, 1)

RECURSIVE NextCloser(_, _)
NextCloser(s, i) ==
  IF i > Len(s) THEN 0 ELSE IF IsCloser(s, i) THEN i ELSE NextCloser(s, i + 1)

\* a text without its leading and trailing whitespace
TrimWs(s) ==
  LET idx == {i \in 1..Len(s) : s[i] \notin WS}
  IN IF idx = {} THEN <<>>
     ELSE SubSeq(s, CHOOSE i \in idx : \A k \in idx : i <= k,
                    CHOOSE i \in idx : \A k \in idx : k <= i)

\* what is written between each "{{" and the next "}}", trimmed, left to right
RECURSIVE WrittenPaths(_, _)
WrittenPaths(s, i) ==
  IF i > Len(s) THEN <<>>
  ELSE IF IsOpener(s, i) /\ NextCloser(s, i + 2) # 0
         THEN <<TrimWs(SubSeq(s, i + 2, NextCloser(s, i + 2) - 1))>>
              \o WrittenPaths(s, NextCloser(s, i + 2) + 2)
         ELSE WrittenPaths(s, i + 1)

Occurrences(seq, x) == Cardinality({i \in DOMAIN seq : seq[i] = x})

RECURSIVE TotalOccurrences(_, _)
TotalOccurrences(st, x) ==
  LET InContent(c) == Occurrences(WrittenPaths(c, 1), x)
      InPart(p) == TotalOccurrences(p, x)
  IN SumOver(InContent, st.contents, 1) + SumOver(InPart, st.parts, 1)

\* C6: for a well-formed tree the list of check has one entry per placeholder
\* of the whole tree: its length is the number of placeholders and a path
\* referenced several times is listed that many times.
C6_CheckComplete ==
  (Checked /\ chk.ok) =>
    /\ Len(chk.ids) = TotalOpeners(story)
    /\ \A k \in DOMAIN chk.ids :
         Occurrences(chk.ids, chk.ids[k]) = TotalOccurrences(story, chk.ids[k])

C6_Witness ==
  /\ Checked /\ chk.ok
  /\ Len(story.parts) >= 1
  /\ Len(chk.ids) = 4
  /\ Occurrences(chk.ids, Ka) = 3

IsScene(item) == item.kind = "File" /\ item.extension = <<"mt">>

\* the scenes of a directory in the order of its listing, a subdirectory
\* expanded at the place where it is listed
RECURSIVE DocumentOrder(_)
RECURSIVE DocumentOrderItems(_, _)
DocumentOrderItems(items, i) ==
  IF i > Len(items) THEN <<>>
  ELSE (IF items[i].kind = "Directory" THEN DocumentOrder(items[i].directory)
        ELSE IF IsScene(items[i]) THEN <<items[i].content>> ELSE <<>>)
       \o DocumentOrderItems(items, i + 1)

DocumentOrder(d) == DocumentOrderItems(d.contents, 1)

\* the scenes of a directory, its own scenes first in the order of the
\* listing, then those of its subdirectories in the order of the listing
RECURSIVE ContentsFirstOrder(_)
RECURSIVE SubdirectoryScenes(_, _)
SubdirectoryScenes(items, i) ==
  IF i > Len(items) THEN <<>>
  ELSE (IF items[i].kind = "Directory"
          THEN ContentsFirstOrder(items[i].directory) ELSE <<>>)
       \o SubdirectoryScenes(items, i + 1)

ContentsFirstOrder(d) ==
  LET own == SelectSeq(d.contents, IsScene)
  IN [i \in DOMAIN own |-> own[i].content] \o SubdirectoryScenes(d.contents, 1)

RECURSIVE IdsOf(_)
IdsOf(texts) ==
  IF texts = <<>> THEN <<>> ELSE WrittenPaths(Head(texts), 1) \o IdsOf(Tail(texts))

\* the resolved text of one scene
ResolveScene(text, ord) == JoinExpressions(Parse(text).pairs, 1, context, ord)

VisitedInOrder(scenes) ==
  /\ (Checked /\ chk.ok) => chk.ids = IdsOf(scenes)
  /\ (Built /\ res.ok) =>
       \E ord \in HashOrders(context) :
         ManuscriptOrder(res.story) = [i \in DOMAIN scenes |-> ResolveScene(scenes[i], ord)]

C8_FullPathAsWritten ==
  (Checked /\ chk.ok) =>
    /\ chk.ids = WrittenPaths(SceneText, 1)
    /\ SceneText = TextCheckWorks =>
         chk.ids = <<<<"v", "a", "r", "i", "a", "b", "l", "e", "1">>,
                     <<"v", "a", "r", "i", "a", "b", "l", "e", "2">>>>
    /\ SceneText = TextAbc => chk.ids = <<<<"a", ".", "b", ".", "c">>>>

C8_Witness ==
  /\ Checked /\ chk.ok
  /\ SceneText = TextName_32Long
  /\ chk.ids = <<Kname \o <<"_", "3", "2", ".", "l", "o", "n", "g">>>>

\* the components of a body, split at its dots
RECURSIVE SplitDots(_)
SplitDots(s) ==
  LET dots == {i \in 1..Len(s) : s[i] = "."}
      d == CHOOSE i \in dots : \A k \in dots : i <= k
  IN IF dots = {} THEN <<s>>
     ELSE <<SubSeq(s, 1, d - 1)>> \o SplitDots(SubSeq(s, d + 1, Len(s)))

\* [A-Za-z_][A-Za-z0-9_]*
IsName(s) ==
  /\ s # <<>>
  /\ IsIdStart(s[1])
  /\ \A i \in 1..Len(s) : IsIdCont(s[i])

\* one or more identifier components separated by single dots, whitespace
\* allowed around the path and around its dots
ValidBody(body) ==
  LET parts == SplitDots(body)
  IN \A i \in DOMAIN parts : IsName(TrimWs(parts[i]))

\* a text with one opener that has a closer after it
OnePlaceholder(s) ==
  /\ CountOpeners(s) = 1
  /\ \E i \in 1..Len(s) : IsOpener(s, i) /\ NextCloser(s, i + 2) # 0

BodyOf(s) ==
  LET o == CHOOSE i \in 1..Len(s) : IsOpener(s, i)
  IN SubSeq(s, o + 2, NextCloser(s, o + 2) - 1)

\* C9: MakinilyaText::parse accepts a placeholder exactly when its body is one
\* or more components [A-Za-z_][A-Za-z0-9_]* separated by single dots; an
\* empty body, a digit-leading component, consecutive dots, a leading or
\* trailing dot and other punctuation are rejected with an error.
C9_PlaceholderSyntax ==
  /\ (Checked /\ OnePlaceholder(SceneText)) =>
       /\ chk.ok <=> ValidBody(BodyOf(SceneText))
       /\ ~chk.ok => chk.error.message # ""
  /\ (Built /\ OnePlaceholder(SceneText)) =>
       (res.ok <=> ValidBody(BodyOf(SceneText)))
  /\ (Checked /\ SceneText \in {TextName, TextName32, TextName_32, TextName_32Long}) =>
       chk.ok
  /\ (Checked /\ SceneText \in {TextEmptyBody, Text32, TextName_32DotDotLong, TextPunct}) =>
       ~chk.ok

C9_Witness ==
  /\ Checked /\ ~chk.ok
  /\ Built /\ ~res.ok
  /\ OnePlaceholder(SceneText)
  /\ BodyOf(SceneText) = <<"a", ".", ".", "a">>

\* C10: a content text without "{{" is returned unchanged by interpolate,
\* line breaks included, for every context.
C10_LiteralUnchanged ==
  (Built /\ CountOpeners(SceneText) = 0) =>
    res.ok /\ res.story.contents = <<SceneText>>

C10_Witness ==
  /\ Built /\ res.ok
  /\ SceneText = <<"{", "\n", "}">>
  /\ context = CtxA
  /\ res.story.contents = <<SceneText>>

\* a text without its "{{" ... "}}" spans: from each opener up to and with
\* the next closer
RECURSIVE StripSpans(_, _)
StripSpans(s, i) ==
  IF i > Len(s) THEN <<>>
  ELSE IF IsOpener(s, i) /\ NextCloser(s, i + 2) # 0
         THEN StripSpans(s, NextCloser(s, i + 2) + 2)
         ELSE <<s[i]>> \o StripSpans(s, i + 1)

\* C11: interpolating a well-formed text against the empty context gives the
\* text with every "{{" ... "}}" span deleted; the literal text stays as it
\* is and in its order, nothing else is added or removed.
C11_EmptyContextStrips ==
  (Built /\ res.ok /\ context = ContextNew) =>
    ResolvedText = StripSpans(SceneText, 1)

C11_Witness ==
  /\ Built /\ res.ok
  /\ context = ContextNew
  /\ SceneText = TextCheckWorks
  /\ ResolvedText = <<" ", "s", "e", "p", "a", "r", "a", "t", "o", "r", " ">>

Parsed == parsed # NoResult

\* the segments of a parse: the pairs of the expressions, without the EOI pair
Segments(pairs) == SelectSeq(pairs, LAMBDA p : p.rule # "EOI")

\* the spans of the segments from the i-th on, one after the other
RECURSIVE ConcatSpans(_, _)
ConcatSpans(segs, i) ==
  IF i > Len(segs) THEN <<>> ELSE segs[i].str \o ConcatSpans(segs, i + 1)

\* C12: the segments of a well-formed text partition it: every segment is
\* a non-empty span, and the spans in order, literals as they are and
\* placeholders as spelled, give back the text, no character dropped or
\* duplicated.
C12_SegmentsPartition ==
  (Parsed /\ parsed.ok) =>
    /\ ConcatSpans(Segments(parsed.pairs), 1) = SceneText
    /\ \A k \in DOMAIN Segments(parsed.pairs) : Segments(parsed.pairs)[k].str # <<>>

C12_Witness ==
  /\ Parsed /\ parsed.ok
  /\ SceneText = TextSpaced
  /\ Len(Segments(parsed.pairs)) = 3
  /\ Segments(parsed.pairs)[2].str = <<"x", "\n">>
  /\ ConcatSpans(Segments(parsed.pairs), 1) = TextSpaced

\* a ParsingError(line, col, message) with both numbers 1-based
OneBased(error) == error.line >= 1 /\ error.col >= 1 /\ error.message # ""

\* C13: every error of MakinilyaText::parse, returned to a direct caller or
\* passed up by interpolate or check, carries a line and a column that are
\* both at least 1 and a non-empty message; when the only opener of the text
\* is at its first character, the failure is at line 1, column 1.
C13_ErrorLocationOneBased ==
  /\ (Parsed /\ ~parsed.ok) =>
       /\ OneBased(parsed.error)
       /\ (IsOpener(SceneText, 1) /\ CountOpeners(SceneText) = 1) =>
            parsed.error.line = 1 /\ parsed.error.col = 1
  /\ (Built /\ ~res.ok) => OneBased(res.error)
  /\ (Checked /\ ~chk.ok) => OneBased(chk.error)

C13_Witness ==
  /\ Parsed /\ ~parsed.ok
  /\ SceneText = TextEmptyBody
  /\ parsed.error = [line |-> 1, col |-> 1, message |-> ExpectedMessage]
  /\ Built /\ ~res.ok
  /\ Checked /\ ~chk.ok

\* the first opener, from position i on, that has no closer after it or has
\* a malformed body before its next closer; 0 when there is none
RECURSIVE FirstBadOpener(_, _)
FirstBadOpener(s, i) ==
  IF i > Len(s) THEN 0
  ELSE IF ~IsOpener(s, i) THEN FirstBadOpener(s, i + 1)
  ELSE IF NextCloser(s, i + 2) = 0 THEN i
  ELSE IF ~ValidBody(SubSeq(s, i + 2, NextCloser(s, i + 2) - 1)) THEN i
  ELSE FirstBadOpener(s, NextCloser(s, i + 2) + 2)

\* line and column of position i, counted from (1, 1) at position k
RECURSIVE LineColAt(_, _, _, _, _)
LineColAt(s, i, k, line, col) ==
  IF k = i THEN [line |-> line, col |-> col]
  ELSE IF s[k] = "\n" THEN LineColAt(s, i, k + 1, line + 1, 1)
  ELSE LineColAt(s, i, k + 1, line, col + 1)

\* C14: an opener without a closer, or with a malformed body, is never taken
\* as literal text: parse fails exactly when the text has such an opener, the
\* error is at the line and column of the first one, and in a text that
\* parses no literal segment holds a "{{".
C14_OpenerNeverLiteral ==
  Parsed =>
    /\ parsed.ok <=> FirstBadOpener(SceneText, 1) = 0
    /\ ~parsed.ok =>
         LET at == LineColAt(SceneText, FirstBadOpener(SceneText, 1), 1, 1, 1)
         IN parsed.error.line = at.line /\ parsed.error.col = at.col
    /\ parsed.ok =>
         \A k \in DOMAIN parsed.pairs :
           parsed.pairs[k].rule = "text_content" =>
             CountOpeners(parsed.pairs[k].str) = 0

C14_Witness ==
  /\ Parsed /\ ~parsed.ok
  /\ SceneText = TextUnclosed
  /\ FirstBadOpener(SceneText, 1) = 9
  /\ parsed.error.line = 2 /\ parsed.error.col = 1

ContentErrors(st) == {Parse(c).error : c \in {x \in AllContents(st) : ~Parse(x).ok}}

\* C16: a syntax error raised in a content at any depth is what the caller of
\* interpolate and of check receives: line, column and message are those of
\* parsing that content alone, no level in between recovers or rewrites it.
C16_ErrorPropagatedUnchanged ==
  /\ (Built /\ ~res.ok) => res.error \in ContentErrors(story)
  /\ (Checked /\ ~chk.ok) => chk.error \in ContentErrors(story)

C16_Witness ==
  /\ Built /\ ~res.ok
  /\ Checked /\ ~chk.ok
  /\ \A i \in DOMAIN story.contents : Parse(story.contents[i]).ok
  /\ Len(story.parts) = 1
  /\ story.parts[1].contents = <<>>
  /\ Len(story.parts[1].parts) = 1
  /\ ContentErrors(story.parts[1].parts[1])
       = {[line |-> 2, col |-> 1, message |-> ExpectedMessage]}
  /\ res.error = [line |-> 2, col |-> 1, message |-> ExpectedMessage]
  /\ chk.error = res.error

\* C17: interpolate and check leave what they are given as it is: no call,
\* whether it returns Ok or Err, changes the tree (titles, parts, contents)
\* or the context; what interpolate returns is another tree.
C17_InputsUnchanged ==
  [][story # NoStory => (story' = story /\ context' = context /\ dir' = dir)]_vars

C17_Witness ==
  /\ Built /\ res.ok
  /\ Checked /\ chk.ok
  /\ story = StoryParse(dir)
  /\ context = CtxV
  /\ res.story # story
  /\ SameShape(story, res.story)

\* C18: parsing and interpolation are deterministic: a second run on the same
\* text, tree and context gives what the first gave, the same segments or
\* resolved tree, or the same error at the same place.
C18_Deterministic ==
  [][/\ (Parsed /\ Parsed') => parsed' = parsed
     /\ (Checked /\ Checked') => chk' = chk
     /\ (Built /\ Built') => res' = res]_vars

\* C19: the three edge shapes are accepted: the empty text has no segment and
\* resolves to the empty text; a text without placeholder is one literal
\* segment; a text of placeholders alone, with no literal between them
\* ("{{ a }}{{ a }}"), is one placeholder segment for each.
C19_EdgeShapes ==
  /\ (Parsed /\ SceneText = <<>>) =>
       parsed.ok /\ Segments(parsed.pairs) = <<>>
  /\ (Built /\ SceneText = <<>>) =>
       res.ok /\ res.story.contents = <<<<>>>>
  /\ (Parsed /\ SceneText # <<>> /\ CountOpeners(SceneText) = 0) =>
       /\ parsed.ok
       /\ Segments(parsed.pairs) = <<[rule |-> "text_content", str |-> SceneText]>>
  /\ (Built /\ SceneText # <<>> /\ CountOpeners(SceneText) = 0) => res.ok
  /\ (Parsed /\ SceneText = TextTwice) =>
       /\ parsed.ok
       /\ Len(Segments(parsed.pairs)) = 2
       /\ \A k \in 1..2 : Segments(parsed.pairs)[k].rule = "string_interpolation"
  /\ (Built /\ SceneText = TextTwice) =>
       /\ res.ok
       /\ context = ContextNew => res.story.contents = <<<<>>>>
       /\ context = CtxName => res.story.contents = <<<<>>>>

C19_Witness ==
  /\ Parsed /\ parsed.ok
  /\ Built /\ res.ok
  /\ SceneText = <<>>
  /\ parsed.pairs = <<[rule |-> "EOI"]>>
  /\ res.story.contents = <<<<>>>>

\* a text with the whitespace of its placeholder bodies removed
RECURSIVE StripBodyWs(_, _)
StripBodyWs(s, i) ==
  IF i > Len(s) THEN <<>>
  ELSE IF IsOpener(s, i) /\ NextCloser(s, i + 2) # 0
         THEN Open
              \o SelectSeq(SubSeq(s, i + 2, NextCloser(s, i + 2) - 1),
                           LAMBDA ch : ch \notin WS)
              \o Close \o StripBodyWs(s, NextCloser(s, i + 2) + 2)
         ELSE <<s[i]>> \o StripBodyWs(s, i + 1)

\* the paths of the placeholder segments, each a sequence of components
PathsOf(pairs) ==
  LET ph == SelectSeq(pairs, LAMBDA p : p.rule = "string_interpolation")
  IN [k \in DOMAIN ph |-> ph[k].names]

\* a body with whitespace inside one of its components
InnerWs(body) ==
  \E k \in DOMAIN SplitDots(body) :
    \E i \in DOMAIN TrimWs(SplitDots(body)[k]) : TrimWs(SplitDots(body)[k])[i] \in WS

\* C20: whitespace in a placeholder, around the path or around its dots, does
\* not change the path: a text and the same text with that whitespace removed
\* denote the same components and resolve to the same text, "{{a.b}}" and
\* "{{ a . b }}" denote [a, b] and resolve to the same value; whitespace
\* inside a component is a syntax error.
C20_WhitespaceInsensitive ==
  /\ (Parsed /\ parsed.ok) =>
       /\ Parse(StripBodyWs(SceneText, 1)).ok
       /\ PathsOf(parsed.pairs) = PathsOf(Parse(StripBodyWs(SceneText, 1)).pairs)
       /\ OnePlaceholder(SceneText) =>
            PathsOf(parsed.pairs)
              = <<SplitDots(SelectSeq(BodyOf(SceneText), LAMBDA ch : ch \notin WS))>>
       /\ SceneText = TextSpaced => PathsOf(parsed.pairs) = <<<<Ka, Kb>>, <<Ka, Kb>>>>
  /\ (Parsed /\ OnePlaceholder(SceneText) /\ InnerWs(BodyOf(SceneText))) => ~parsed.ok
  /\ (Built /\ res.ok) =>
       /\ \E ord \in HashOrders(context) :
            res = Interpolate(StoryParse(SceneDirectory(StripBodyWs(SceneText, 1))),
                              context, ord)
       /\ (SceneText = TextSpaced /\ context = CtxA) =>
            ResolvedText = <<"-", "1", "2", "x", "\n", "-", "1", "2">>

C20_Witness ==
  /\ Parsed /\ parsed.ok
  /\ Built /\ res.ok
  /\ SceneText = TextSpaced
  /\ context = CtxA
  /\ PathsOf(parsed.pairs) = <<<<Ka, Kb>>, <<Ka, Kb>>>>
  /\ ResolvedText = <<"-", "1", "2", "x", "\n", "-", "1", "2">>

Loaded == loaded # NoResult

\* an array or a date-time, or a table that holds one at any depth
RECURSIVE Unsupported(_)
Unsupported(value) ==
  \/ value.t \in {"Array", "Datetime"}
  \/ /\ value.t = "Table"
     /\ \E k \in DOMAIN value.v : Unsupported(value.v[k])

\* the map holds the keys of the table, each with the value of its own kind
RECURSIVE SameEntries(_, _)
SameEntries(table, m) ==
  /\ DOMAIN m = DOMAIN table
  /\ \A k \in DOMAIN table :
       CASE table[k].t = "String" -> m[k] = DString(table[k].v)
         [] table[k].t \in {"Integer", "Float"} -> m[k] = DNumber(table[k].v)
         [] table[k].t = "Boolean" -> m[k] = DBoolean(table[k].v)
         [] table[k].t = "Table" ->
              m[k].t = "Object" /\ SameEntries(table[k].v, m[k].v)
         [] OTHER -> FALSE

\* C21: Context::parse fails with UnsupportedValue exactly when the table
\* holds an array or a date-time, at the top level or in a nested table at
\* any depth; the failure carries no context, and a context that is returned
\* holds every key of the table with the value of its own kind, nothing
\* coerced.
C21_UnsupportedValue ==
  Loaded =>
    /\ ~loaded.ok <=> Unsupported(TTable(toml))
    /\ ~loaded.ok => loaded = [ok |-> FALSE, error |-> "UnsupportedValue"]
    /\ loaded.ok => SameEntries(toml, Variables(loaded.context))

C21_Witness ==
  /\ Loaded
  /\ toml = TomlDeep
  /\ loaded = [ok |-> FALSE, error |-> "UnsupportedValue"]

\* the value the placeholder of a path case resolves to, when its whole path
\* is found
Found(c) == Lookup(Variables(context), c.path)

\* C22: writing a context value as text never fails: a Boolean gives "true"
\* or "false", a String gives itself unchanged, and a placeholder whose path
\* ends on an Object resolves to some text between braces, interpolate
\* returning Ok.
C22_StringifyTotal ==
  Built =>
    \A c \in PathCases :
      (SceneText = c.text /\ Found(c) # None) =>
        /\ res.ok
        /\ Found(c).t = "Boolean" =>
             ResolvedText
               = c.pre \o (IF Found(c).v THEN <<"t", "r", "u", "e">>
                           ELSE <<"f", "a", "l", "s", "e">>) \o c.post
        /\ Found(c).t = "String" => ResolvedText = c.pre \o Found(c).v \o c.post
        /\ Found(c).t = "Object" =>
             LET n == Len(ResolvedText) - Len(c.pre) - Len(c.post)
                 text == SubSeq(ResolvedText, Len(c.pre) + 1, Len(c.pre) + n)
             IN /\ n >= 2
                /\ Head(text) = "{" /\ text[n] = "}"
                /\ ResolvedText = c.pre \o text \o c.post

C22_Witness ==
  /\ Built /\ res.ok
  /\ context = CtxA
  /\ \E c \in PathCases :
       /\ SceneText = c.text
       /\ c.path = <<Ka>>
       /\ c.pre # <<>>
       /\ Found(c).t = "Object"
  /\ Len(ResolvedText) > 6

\* the resolved text of one content, from a call of interpolate on a story
\* that holds nothing but this content
ResolveAlone(text, ctx, ord) ==
  Interpolate(PushContent(StoryNew("alone"), text), ctx, ord).story.contents[1]

\* every content of a well-formed tree resolved alone, in no order, and the
\* results put at the places of the contents
RECURSIVE Reassemble(_, _, _)
Reassemble(st, ctx, ord) ==
  [title |-> st.title,
   parts |-> [j \in DOMAIN st.parts |-> Reassemble(st.parts[j], ctx, ord)],
   contents |-> [i \in DOMAIN st.contents |-> ResolveAlone(st.contents[i], ctx, ord)]]

\* C23: the resolution of a content does not depend on any other content:
\* the tree interpolate returns is the tree whose contents are each resolved
\* alone and put back at their places, whatever the order they are resolved
\* in, and each part of it is what interpolate returns for that part alone.
C23_ContentsIndependent ==
  (Built /\ res.ok) =>
    \E ord \in HashOrders(context) :
      /\ res.story = Reassemble(story, context, ord)
      /\ \A j \in DOMAIN story.parts :
           res.story.parts[j] = Interpolate(story.parts[j], context, ord).story

C23_Witness ==
  /\ Built /\ res.ok
  /\ context = CtxV
  /\ Len(story.contents) = 2
  /\ story.contents[1] # story.contents[2]
  /\ Len(story.parts) = 1
  /\ Len(story.parts[1].contents) = 1
  /\ res.story.contents[2] = ResolveAlone(story.contents[2], context, <<Ka>>)
  /\ res.story.contents[2] # <<>>
  /\ res.story.contents[2] # res.story.contents[1]

Separated == separated # NoResult

RemoveCommas(s) == SelectSeq(s, LAMBDA c : c # ",")

\* the lengths of the groups between the commas of s, left to right
RECURSIVE GroupLens(_, _)
GroupLens(s, cur) ==
  IF s = <<>> THEN <<cur>>
  ELSE IF Head(s) = "," THEN <<cur>> \o GroupLens(Tail(s), 0)
  ELSE GroupLens(Tail(s), cur + 1)

\* C24: with_thousands_separator puts a comma after every third character
\* from the right and nowhere else: without its commas the output is the
\* input, every group but the leftmost has 3 characters, the leftmost has
\* 1 to 3, and an input of 3 characters or fewer is returned as it is.
C24_ThousandsSeparator ==
  Separated =>
    LET input == U32ToString(count)
        lens == GroupLens(separated.digits, 0)
    IN /\ RemoveCommas(separated.digits) = input
       /\ lens[1] \in 1..3
       /\ \A i \in 2..Len(lens) : lens[i] = 3
       /\ Len(lens) = ((Len(input) + 2) \div 3)
       /\ Len(input) <= 3 => separated.digits = input
       /\ separated.word_count = separated.digits \o <<" ", "w", "o", "r", "d", "s">>

C24_Witness ==
  /\ Separated
  /\ count = 1000007
  /\ separated.digits = <<"1", ",", "0", "0", "0", ",", "0", "0", "7">>

Ops == {"check", "interpolate"}

\* the call of op has returned to the program
Returned(op) == IF op = "check" THEN chk # NoResult ELSE res # NoResult

ResultOf(op) == IF op = "check" THEN chk ELSE res

\* the places of the contents of a tree (the indices of the parts above the
\* content, then its index) and of its parts
RECURSIVE ContentPlaces(_, _)
ContentPlaces(st, path) ==
  {<<path, i>> : i \in DOMAIN st.contents}
    \cup UNION {ContentPlaces(st.parts[j], Append(path, j)) : j \in DOMAIN st.parts}

RECURSIVE PartPlaces(_, _)
PartPlaces(st, path) ==
  {Append(path, j) : j \in DOMAIN st.parts}
    \cup UNION {PartPlaces(st.parts[j], Append(path, j)) : j \in DOMAIN st.parts}

NoRepeat(s) == \A m, n \in DOMAIN s : s[m] = s[n] => m = n

Range(s) == {s[n] : n \in DOMAIN s}

StoryContents == IF story = NoStory THEN {} ELSE ContentPlaces(story, <<>>)

StoryParts == IF story = NoStory THEN {} ELSE PartPlaces(story, <<>>)

\* every content and every part of the story was visited, none twice
VisitedAllOnce(op) ==
  /\ NoRepeat(walk.visited[op]) /\ Range(walk.visited[op]) = StoryContents
  /\ NoRepeat(walk.entered[op]) /\ Range(walk.entered[op]) = StoryParts

\* C25 as it is worded: every call that has returned, with a result or with
\* an error, has visited each content and each part exactly once.
C25_VisitsAllBeforeReturn ==
  \A op \in Ops : Returned(op) => VisitedAllOnce(op)

\* C25: interpolate and check terminate on every finite story tree: a call
\* that has started returns, with a result or with an error; no content and
\* no part is visited twice; and a call that returns a result has visited
\* each content and each part exactly once.
C25_Terminates ==
  /\ Walking ~> ~Walking
  /\ [](\A op \in Ops :
          /\ NoRepeat(walk.visited[op]) /\ NoRepeat(walk.entered[op])
          /\ Range(walk.visited[op]) \subseteq StoryContents
          /\ Range(walk.entered[op]) \subseteq StoryParts
          /\ (walk.op = op) => ~Returned(op)
          /\ (walk.op # op /\ walk.visited[op] # <<>>) => Returned(op)
          /\ (Returned(op) /\ ResultOf(op).ok) => VisitedAllOnce(op))

C25_Witness ==
  /\ Returned("check") /\ Returned("interpolate")
  /\ res.ok /\ chk.ok
  /\ Len(walk.visited["interpolate"]) = 2
  /\ Len(walk.entered["check"]) = 1
  /\ <<<<1>>, 1>> \in StoryContents

LastOf(s) == s[Len(s)]

\* C26: check and interpolate agree on failure: on the same tree, whatever
\* the context, check returns an error exactly when interpolate returns
\* one, and then both return the same error (line, column and message),
\* met at the same content.
C26_CheckInterpolateAgree ==
  (Returned("check") /\ Returned("interpolate")) =>
    /\ chk.ok <=> res.ok
    /\ ~chk.ok =>
         /\ chk.error.line = res.error.line
         /\ chk.error.col = res.error.col
         /\ chk.error.message = res.error.message
         /\ LastOf(walk.visited["check"]) = LastOf(walk.visited["interpolate"])
    /\ walk.visited["check"] = walk.visited["interpolate"]

C26_Witness ==
  /\ Returned("check") /\ Returned("interpolate")
  /\ ~chk.ok /\ ~res.ok
  /\ context = CtxV
  /\ res.error.line = 2
  /\ LastOf(walk.visited["interpolate"]) = <<<<1>>, 1>>
  /\ Cardinality(StoryContents) = 2

\* the story at a place of the tree, and the text of a content
RECURSIVE NodeAt(_, _)
NodeAt(st, path) ==
  IF path = <<>> THEN st ELSE NodeAt(st.parts[Head(path)], Tail(path))

TextAt(place) == NodeAt(story, place[1]).contents[place[2]]

\* the places of the contents in traversal order: a node's own contents in
\* order, then its parts in order, recursively
RECURSIVE TraversalOrder(_, _)
RECURSIVE TraversalOrderParts(_, _, _)
TraversalOrderParts(st, path, j) ==
  IF j > Len(st.parts) THEN <<>>
  ELSE TraversalOrder(st.parts[j], Append(path, j))
         \o TraversalOrderParts(st, path, j + 1)

TraversalOrder(st, path) ==
  [i \in DOMAIN st.contents |-> <<path, i>>] \o TraversalOrderParts(st, path, 1)

Malformed(order) == {n \in DOMAIN order : ~Parse(TextAt(order[n])).ok}

FirstMalformed(order) ==
  CHOOSE n \in Malformed(order) : \A m \in Malformed(order) : n <= m

\* C27: when a tree holds malformed contents, interpolate and check return
\* the error of the first of them in traversal order (a node's own contents
\* in order, then its parts in order, recursively), and no content that
\* comes later in that order is parsed.
C27_FirstErrorInTraversalOrder ==
  \A op \in Ops :
    (Returned(op) /\ Malformed(TraversalOrder(story, <<>>)) # {}) =>
      LET order == TraversalOrder(story, <<>>)
          first == FirstMalformed(order)
      IN /\ ~ResultOf(op).ok
         /\ ResultOf(op).error = Parse(TextAt(order[first])).error
         /\ walk.visited[op] = SubSeq(order, 1, first)

C27_Witness ==
  /\ Returned("check") /\ Returned("interpolate")
  /\ Cardinality(Malformed(TraversalOrder(story, <<>>))) = 2
  /\ dir.contents[1].kind = "Directory"
  /\ story.parts[1].contents # <<>>
  /\ Parse(story.parts[1].contents[1]).error.line = 2
  /\ res.error.line = 1 /\ chk.error.line = 1
  /\ walk.visited["check"] = <<<<<<>>, 1>>>>

\* the pieces with every placeholder replaced by the string the context
\* holds for its key, character for character
RECURSIVE Substituted(_, _)
Substituted(pieces, ctx) ==
  IF pieces = <<>> THEN <<>>
  ELSE (IF Head(pieces).kind = "key"
          THEN Variables(ctx)[Head(pieces).str].v
          ELSE Head(pieces).str)
       \o Substituted(Tail(pieces), ctx)

HasOpener(text) == \E n \in 1..(Len(text) - 1) : text[n] = "{" /\ text[n + 1] = "{"

\* C28: substitution is single-pass: the string a context holds is put into
\* the output as it is and is not parsed again, so a value that holds a
\* placeholder or a lone opener shows literally in the resolved text and
\* causes neither a parse error nor a second substitution.
C28_SinglePass ==
  (Built /\ story # NoStory) =>
    \A pieces \in PieceTexts :
      story.contents[1] = Spell(pieces) =>
        /\ res.ok
        /\ res.story.contents[1] = Substituted(pieces, context)

C28_Witness ==
  /\ Built /\ res.ok
  /\ story # NoStory
  /\ story.contents[1] = Open \o <<" ", "a", " ">> \o Close \o <<"x">>
                         \o Open \o <<" ", "b", " ">> \o Close
  /\ Variables(context)[Ka].v = Open \o <<" ", "b", " ">> \o Close
  /\ Variables(context)[Kb].v = Open
  /\ res.story.contents[1] = Open \o <<" ", "b", " ">> \o Close \o <<"x">> \o Open
  /\ HasOpener(res.story.contents[1])
  /\ ~Parse(res.story.contents[1]).ok

\* C29: the resolved tree depends only on the context entries the paths of
\* the placeholders reach: a context that agrees with the one used on the
\* value found, or not found, for every path the text refers to gives the
\* same result from interpolate, whatever other keys the two hold.
C29_OnlyReachedEntries ==
  Built =>
    \A c \in PathCases :
      SceneText = c.text =>
        \A other \in Contexts :
          Lookup(Variables(other), c.path) = Lookup(Variables(context), c.path) =>
            \A ord \in HashOrders(other) : Interpolate(story, other, ord) = res

\* the arguments of the calls of fn, in call order
ArgsOf(fn) ==
  LET made == SelectSeq(calls, LAMBDA c : c.fn = fn)
  IN [k \in DOMAIN made |-> made[k].arg]

\* C30: after any sequence of push_part and push_content calls on a Story,
\* contents() lists the pushed texts and parts() the pushed parts, each in
\* call order, nothing dropped or doubled; push_content leaves the title and
\* the parts as they were, push_part leaves the title and the contents.
C30_PushFrame ==
  /\ [](draft # NoStory =>
          /\ Contents(draft) = ArgsOf("push_content")
          /\ Parts(draft) = ArgsOf("push_part")
          /\ Len(Contents(draft)) + Len(Parts(draft)) = Len(calls))
  /\ [][calls' # calls =>
          /\ Title(draft') = Title(draft)
          /\ calls'[Len(calls')].fn = "push_content" => Parts(draft') = Parts(draft)
          /\ calls'[Len(calls')].fn = "push_part" => Contents(draft') = Contents(draft)]_vars

C30_Witness ==
  /\ draft # NoStory
  /\ Len(calls) = 4
  /\ calls[1].fn = "push_content" /\ calls[2].fn = "push_part"
  /\ calls[3].fn = "push_content" /\ calls[4].fn = "push_part"
  /\ calls[1].arg # calls[3].arg /\ calls[2].arg # calls[4].arg
  /\ Contents(draft) = <<calls[1].arg, calls[3].arg>>
  /\ Parts(draft) = <<calls[2].arg, calls[4].arg>>
  /\ Title(draft) = "root"



====
